---- MODULE Spec2Model ----
(***************************************************************************)
(* A state-machine model of the FTP/SFTP tool server of src/index.js: the  *)
(* ignore matcher (shouldIgnore over minimatch), the upload synchronisation*)
(* (syncFiles), the bounded tree walk (getTreeRecursive) and the tool      *)
(* request handler with its connection handling.                            *)
(*                                                                         *)
(* Strings whose content the code inspects (file names, glob patterns) are *)
(* sequences of one-character strings.  A local or remote path is a        *)
(* sequence of entry names below the root the invocation was given.        *)
(***************************************************************************)
EXTENDS Integers, Sequences, FiniteSets, TLC

(***************************************************************************)
(* Bounds of the model.                                                    *)
(***************************************************************************)
\* modification times and the server's time range over 0..MaxTime
\* (milliseconds since the epoch, as JavaScript counts them)
MaxTime == 2
\* the environment makes at most MaxFaults operations fail in one behaviour
MaxFaults == 1
\* ftp_tree is invoked with maxDepth in -1..MaxDepthArg
MaxDepthArg == 2
\* the most files a batch request of the model names
MaxBatch == 3

(***************************************************************************)
(* Strings.                                                                *)
(***************************************************************************)
\* the characters of the entry names used by the model
Chars ==
  ( "a.txt" :> <<"a", ".", "t", "x", "t">> @@
    "b.txt" :> <<"b", ".", "t", "x", "t">> @@
    "c.txt" :> <<"c", ".", "t", "x", "t">> @@
    ".env.log" :> <<".", "e", "n", "v", ".", "l", "o", "g">> @@
    "node_modules" :> <<"n", "o", "d", "e", "_", "m", "o", "d", "u", "l", "e", "s">> @@
    "pkg.js" :> <<"p", "k", "g", ".", "j", "s">> @@
    ".npm" :> <<".", "n", "p", "m">> @@
    "e.txt" :> <<"e", ".", "t", "x", "t">> @@
    "sub" :> <<"s", "u", "b">> @@
    "d.txt" :> <<"d", ".", "t", "x", "t">> @@
    ".ftpignore" :> <<".", "f", "t", "p", "i", "g", "n", "o", "r", "e">> @@
    ".gitignore" :> <<".", "g", "i", "t", "i", "g", "n", "o", "r", "e">> @@
    "build" :> <<"b", "u", "i", "l", "d">> @@
    "x.tmp" :> <<"x", ".", "t", "m", "p">> @@
    "r.txt" :> <<"r", ".", "t", "x", "t">> )

Names == DOMAIN Chars

\* s.startsWith(prefix)
StartsWith(s, prefix) ==
  /\ Len(prefix) <= Len(s)
  /\ SubSeq(s, 1, Len(prefix)) = prefix

\* String.prototype.trim, for the blank character
RECURSIVE TrimLeft(_)
TrimLeft(s) ==
  IF s # <<>> /\ Head(s) = " " THEN TrimLeft(Tail(s)) ELSE s

RECURSIVE TrimRight(_)
TrimRight(s) ==
  IF s # <<>> /\ s[Len(s)] = " " THEN TrimRight(SubSeq(s, 1, Len(s) - 1)) ELSE s

Trim(s) == TrimRight(TrimLeft(s))

\* str.split('/'): the segments between the slashes (empty segments kept)
RECURSIVE SplitSlashFrom(_, _)
SplitSlashFrom(s, cur) ==
  IF s = <<>> THEN <<cur>>
  ELSE IF Head(s) = "/" THEN <<cur>> \o SplitSlashFrom(Tail(s), <<>>)
  ELSE SplitSlashFrom(Tail(s), Append(cur, Head(s)))

SplitSlash(s) == SplitSlashFrom(s, <<>>)

(***************************************************************************)
(* minimatch(path, pattern, options), for the glob syntax the patterns of  *)
(* the model use: literal characters, '*', '?', the '**' segment, a        *)
(* leading '!' (negation) and a leading '#' (comment).                     *)
(***************************************************************************)
IsMagic(c) == c \in {"*", "?"}

HasMagic(p) == \E i \in 1..Len(p) : IsMagic(p[i])

\* one path segment against one pattern segment with wildcards:
\* '*' stands for any run of characters, '?' for one character
RECURSIVE WildMatch(_, _)
WildMatch(p, s) ==
  IF p = <<>> THEN s = <<>>
  ELSE IF Head(p) = "*"
    THEN \/ WildMatch(Tail(p), s)
         \/ (s # <<>> /\ WildMatch(p, Tail(s)))
  ELSE IF s = <<>> THEN FALSE
  ELSE IF Head(p) = "?" THEN WildMatch(Tail(p), Tail(s))
  ELSE Head(p) = Head(s) /\ WildMatch(Tail(p), Tail(s))

\* a pattern segment without magic is compared as a string; one with magic
\* is a regular expression that needs a non-empty segment and, when it
\* starts with a wildcard, rejects '.' and '..' (options.dot is set, so
\* other names with a leading dot match)
SegMatch(p, s) ==
  IF ~HasMagic(p) THEN p = s
  ELSE /\ s # <<>>
       /\ (IsMagic(Head(p)) => s \notin {<<".">>, <<".", ".">>})
       /\ WildMatch(p, s)

GLOBSTAR == <<"*", "*">>

\* Minimatch.matchOne: the segments of the path against the segments of the
\* pattern.  A trailing '**' swallows the rest; a pattern that is longer
\* than the path does not match (so 'dir/**' does not match 'dir' itself).
RECURSIVE MatchOne(_, _)
MatchOne(file, pattern) ==
  IF file = <<>> \/ pattern = <<>>
    THEN IF file = <<>> /\ pattern = <<>> THEN TRUE
         ELSE IF file = <<>> THEN FALSE
         ELSE Len(file) = 1 /\ file[1] = <<>>
  ELSE IF Head(pattern) = GLOBSTAR
    THEN IF Len(pattern) = 1
           THEN \A i \in 1..Len(file) : file[i] \notin {<<".">>, <<".", ".">>}
           ELSE \/ MatchOne(file, Tail(pattern))
                \/ /\ Head(file) \notin {<<".">>, <<".", ".">>}
                   /\ MatchOne(Tail(file), pattern)
  ELSE SegMatch(Head(pattern), Head(file)) /\ MatchOne(Tail(file), Tail(pattern))

\* the number of leading '!' of a pattern
RECURSIVE NegateCount(_)
NegateCount(p) ==
  IF p # <<>> /\ Head(p) = "!" THEN 1 + NegateCount(Tail(p)) ELSE 0

\* minimatch(file, pattern, {dot: true, matchBase}); file is given by its
\* segments
Minimatch(file, pattern, matchBase) ==
  IF pattern # <<>> /\ Head(pattern) = "#" THEN FALSE
  ELSE IF pattern = <<>> THEN file = <<>> \/ file = << <<>> >>
  ELSE LET n    == NegateCount(pattern)
           set  == SplitSlash(SubSeq(pattern, n + 1, Len(pattern)))
           f    == IF matchBase /\ Len(set) = 1 /\ file # <<>>
                     THEN <<file[Len(file)]>> ELSE file
           hit  == MatchOne(f, set)
       IN  IF n % 2 = 1 THEN ~hit ELSE hit

(***************************************************************************)
(* The ignore rules.                                                       *)
(***************************************************************************)
DEFAULT_IGNORE_PATTERNS ==
  << <<"n", "o", "d", "e", "_", "m", "o", "d", "u", "l", "e", "s", "/", "*", "*">>,
     <<".", "g", "i", "t", "/", "*", "*">>,
     <<".", "e", "n", "v">>,
     <<".", "e", "n", "v", ".", "*">>,
     <<"*", ".", "l", "o", "g">>,
     <<".", "D", "S", "_", "S", "t", "o", "r", "e">>,
     <<"T", "h", "u", "m", "b", "s", ".", "d", "b">>,
     <<".", "v", "s", "c", "o", "d", "e", "/", "*", "*">>,
     <<".", "i", "d", "e", "a", "/", "*", "*">>,
     <<"*", ".", "s", "w", "p">>,
     <<"*", ".", "s", "w", "o">>,
     <<"*", "~">>,
     <<".", "f", "t", "p", "c", "o", "n", "f", "i", "g">>,
     <<"n", "p", "m", "-", "d", "e", "b", "u", "g", ".", "l", "o", "g", "*">>,
     <<"y", "a", "r", "n", "-", "d", "e", "b", "u", "g", ".", "l", "o", "g", "*">>,
     <<"y", "a", "r", "n", "-", "e", "r", "r", "o", "r", ".", "l", "o", "g", "*">>,
     <<".", "n", "p", "m">>,
     <<".", "c", "a", "c", "h", "e", "/", "*", "*">>,
     <<"c", "o", "v", "e", "r", "a", "g", "e", "/", "*", "*">>,
     <<".", "n", "y", "c", "_", "o", "u", "t", "p", "u", "t", "/", "*", "*">>,
     <<"*", ".", "p", "i", "d">>,
     <<"*", ".", "s", "e", "e", "d">>,
     <<"*", ".", "p", "i", "d", ".", "l", "o", "c", "k">> >>

\* the lines of an ignore file that count: trimmed, not empty, no comment
RECURSIVE IgnoreFileLines(_)
IgnoreFileLines(lines) ==
  IF lines = <<>> THEN <<>>
  ELSE LET line == Trim(Head(lines))
       IN  (IF line # <<>> /\ ~StartsWith(line, <<"#">>) THEN <<line>> ELSE <<>>)
           \o IgnoreFileLines(Tail(lines))

\* the characters of the path segments of a path
RECURSIVE PathChars(_)
PathChars(p) ==
  IF p = <<>> THEN <<>> ELSE <<Chars[Head(p)]>> \o PathChars(Tail(p))

\* seeded defect: only the first pattern of the list is consulted
shouldIgnoreFirstOnly(rel, ignorePatterns) ==
  /\ ignorePatterns # <<>>
  /\ \/ Minimatch(PathChars(rel), Head(ignorePatterns), TRUE)
     \/ Minimatch(<<Chars[rel[Len(rel)]]>>, Head(ignorePatterns), FALSE)

\* shouldIgnore(filePath, ignorePatterns, basePath); rel is filePath
\* relative to basePath
RECURSIVE shouldIgnore(_, _)
shouldIgnore(rel, ignorePatterns) ==
  IF ignorePatterns = <<>> THEN FALSE
  ELSE \/ Minimatch(PathChars(rel), Head(ignorePatterns), TRUE)
       \/ Minimatch(<<Chars[rel[Len(rel)]]>>, Head(ignorePatterns), FALSE)
       \/ shouldIgnore(rel, Tail(ignorePatterns))

(***************************************************************************)
(* JavaScript values the mtime comparison handles: a number (a Date or a   *)
(* millisecond count), undefined, or NaN (an Invalid Date).                *)
(***************************************************************************)
Num(n) == [t |-> "num", n |-> n]
Undefined == [t |-> "undefined", n |-> 0]
NaN == [t |-> "nan", n |-> 0]

\* the truthiness `a || b` tests: undefined, NaN and the number 0 are falsy.
\* A Date object is always truthy, also the Date of time 0.
Truthy(v, isDate) == v.t = "num" /\ (isDate \/ v.n # 0)

\* seeded defect: a comparison with NaN holds
LessEqOrNaN(a, b) == ~(a.t = "num" /\ b.t = "num" /\ a.n > b.n)

\* a <= b after conversion to numbers; false when either side is NaN
LessEq(a, b) == a.t = "num" /\ b.t = "num" /\ a.n <= b.n

(***************************************************************************)
(* The configuration file .ftpconfig: profiles and deployments.            *)
(***************************************************************************)
NoConfig == [set |-> FALSE, host |-> <<>>, user |-> "", password |-> ""]

ConfigFile ==
  [ profiles |->
      ( "default" :> [set |-> TRUE, user |-> "u", password |-> "p",
                      host |-> <<"f", "t", "p", ".", "e", "x", "a", "m", "p", "l", "e", ".", "c", "o", "m">>] @@
        "staging" :> [set |-> TRUE, user |-> "u", password |-> "p",
                      host |-> <<"s", "f", "t", "p", ":", "/", "/", "h", "o", "s", "t", "1">>] @@
        "broken"  :> [set |-> TRUE, user |-> "u", password |-> "", host |-> <<>>] ),
    deployments |->
      ( "site"   :> [profile |-> "staging", exclude |-> << <<"c", ".", "t", "x", "t">> >>] @@
        "mirror" :> [profile |-> "default", exclude |-> <<>>] @@
        "orphan" :> [profile |-> "missing", exclude |-> <<>>] ) ]

ProfileNames == DOMAIN ConfigFile.profiles
DeploymentNames == DOMAIN ConfigFile.deployments

\* host.includes(sub)
Includes(s, sub) ==
  \E i \in 1..(Len(s) - Len(sub) + 1) : SubSeq(s, i, i + Len(sub) - 1) = sub

\* isSFTP(host)
isSFTP(host) ==
  /\ host # <<>>
  /\ \/ Includes(host, <<"s", "f", "t", "p">>)
     \/ StartsWith(host, <<"s", "f", "t", "p", ":", "/", "/">>)

\* a value of config.port: absent, a number or a string
PortAbsent == [t |-> "undefined", n |-> 0, s |-> <<>>]
PortNumber(n) == [t |-> "number", n |-> n, s |-> <<>>]
PortString(s) == [t |-> "string", n |-> 0, s |-> s]

\* the truthiness of a value of config.port
PortTruthy(v) ==
  \/ v.t = "number" /\ v.n # 0
  \/ v.t = "string" /\ v.s # <<>>

DigitValue ==
  ( "0" :> 0 @@ "1" :> 1 @@ "2" :> 2 @@ "3" :> 3 @@ "4" :> 4 @@
    "5" :> 5 @@ "6" :> 6 @@ "7" :> 7 @@ "8" :> 8 @@ "9" :> 9 )

\* the value of the longest prefix of digits of s, after the digits acc
RECURSIVE ParseDigits(_, _)
ParseDigits(s, acc) ==
  IF s = <<>> \/ Head(s) \notin DOMAIN DigitValue THEN acc
  ELSE ParseDigits(Tail(s), 10 * acc + DigitValue[Head(s)])

\* parseInt(v) for a non-negative integer or a string without a sign:
\* leading blanks are skipped and the leading digits are read; NaN when
\* there is none
parseInt(v) ==
  IF v.t = "number" THEN Num(v.n)
  ELSE LET str == TrimLeft(v.s)
       IN  IF str = <<>> \/ Head(str) \notin DOMAIN DigitValue THEN NaN
           ELSE Num(ParseDigits(str, 0))

\* seeded defect: only the sftp:// prefix selects the SFTP port
getPortPrefixOnly(host, configPort) ==
  IF PortTruthy(configPort) THEN parseInt(configPort)
  ELSE IF host # <<>> /\ StartsWith(host, <<"s", "f", "t", "p", ":", "/", "/">>) THEN Num(22)
  ELSE Num(21)

\* getPort(host, configPort)
getPort(host, configPort) ==
  IF PortTruthy(configPort) THEN parseInt(configPort)
  ELSE IF /\ host # <<>>
          /\ \/ Includes(host, <<"s", "f", "t", "p">>)
             \/ StartsWith(host, <<"s", "f", "t", "p", ":", "/", "/">>)
    THEN Num(22)
  ELSE Num(21)

(***************************************************************************)
(* The local tree and the remote store.  An entry is absent ("none"), a    *)
(* file with a modification time, or a directory.                          *)
(***************************************************************************)
Absent == [kind |-> "none", mtime |-> 0]
Dir == [kind |-> "dir", mtime |-> 0]
File(t) == [kind |-> "file", mtime |-> t]

Times == 0..MaxTime

\* the entries a local sync root may hold, in the order readdir yields them
LocalTop == <<".env.log", ".ftpignore", ".gitignore", ".npm", "a.txt", "b.txt",
              "build", "c.txt", "node_modules", "sub">>

\* the one child each local directory of the model holds
ChildOf == ( ".npm" :> "e.txt" @@ "build" :> "x.tmp" @@ "node_modules" :> "pkg.js"
             @@ "sub" :> "d.txt" )

LocalDirs == DOMAIN ChildOf

\* the order in which a directory listing (readdir, list) yields names
NameOrder == LocalTop \o <<"d.txt", "e.txt", "pkg.js", "r.txt", "x.tmp">>

LocalPaths ==
  {<<LocalTop[i]>> : i \in 1..Len(LocalTop)} \cup {<<d, ChildOf[d]>> : d \in LocalDirs}

\* the content of the ignore files of the local root, line by line
FtpignoreContent == << <<" ", "*", ".", "t", "m", "p", " ">>, <<"#", " ", "t", "m", "p">>, <<>> >>
GitignoreContent == << <<"b", "u", "i", "l", "d", "/">> >>

\* remote directories nest to this depth below the root
TreeLevels == MaxDepthArg + 2

RECURSIVE NestedDirs(_)
NestedDirs(n) ==
  IF n = 0 THEN {<<>>}
  ELSE LET below == NestedDirs(n - 1)
       IN  below \cup {Append(p, "sub") : p \in {q \in below : Len(q) = n - 1}}

\* the remote paths of the model: the mirror of the local paths, a file
\* that exists only remotely, and a chain of nested directories with a file
\* at each level
RemotePaths ==
  LocalPaths \cup {<<"r.txt">>}
  \cup (NestedDirs(TreeLevels) \ {<<>>})
  \cup {Append(p, "d.txt") : p \in NestedDirs(TreeLevels - 1)}

\* the remote paths of a server that lists '.' and '..' in its directories
\* and has a directory loop that leads back to the root
WalkPaths ==
  RemotePaths
  \cup {Append(p, dot) : p \in NestedDirs(TreeLevels), dot \in {".", ".."}}
  \cup {<<"loop">>}

IsPrefix(p, q) == Len(p) <= Len(q) /\ SubSeq(q, 1, Len(p)) = p

Parent(p) == SubSeq(p, 1, Len(p) - 1)

\* the names present in directory dir of the store fs, in listing order
RECURSIVE NamesIn(_, _, _)
NamesIn(fs, dir, order) ==
  IF order = <<>> THEN <<>>
  ELSE (IF Append(dir, Head(order)) \in DOMAIN fs /\ fs[Append(dir, Head(order))].kind # "none"
          THEN <<Head(order)>> ELSE <<>>)
       \o NamesIn(fs, dir, Tail(order))

\* fs.readdir(localPath) and client.list(remotePath)
Listing(fs, dir) == NamesIn(fs, dir, NameOrder)

\* the directory of the store a path of the walk names: the entry loop of
\* the root is the root again
RECURSIVE Canon(_)
Canon(p) ==
  IF p # <<>> /\ Head(p) = "loop" THEN Canon(Tail(p)) ELSE p

\* the entry a path of the walk names in store fs
WalkEntry(fs, p) ==
  IF Canon(p) = <<>> THEN Dir
  ELSE IF Canon(p) \in DOMAIN fs THEN fs[Canon(p)]
  ELSE Absent

\* client.list(remotePath) of the walk, with the entries '.' and '..' where
\* the server lists them and the entry loop where the root has it
WalkListing(fs, p) == NamesIn(fs, Canon(p), <<".", "..">> \o NameOrder \o <<"loop">>)

VARIABLES
  currentConfig,   \* the session's active configuration (module variable)
  currentProfile,  \* the session's active profile name ("" when none)
  local,           \* the local tree: LocalPaths -> entry
  remote,          \* the remote store: RemotePaths -> entry
  remote0,         \* the remote store as the current invocation found it
  listStyle,       \* how the FTP server reports times: "mlsd", "list", "listbad"
  cwd,             \* the directory of the remote store a session starts in
  clock,           \* the server's time, which stamps what the behaviour uploads;
                   \* it stands still over the invocations of one behaviour
  pc,              \* "idle", "sync" or "tree": where the handler is
  call,            \* the invocation being handled
  stack,           \* the frames of the running syncFiles / getTreeRecursive
  results,         \* the entries getTreeRecursive has collected
  response,        \* what the last invocation returned
  openConns,       \* remote connections that are open
  opened,          \* connections the current invocation has opened
  ops,             \* remote operations the current invocation has issued
  visited,         \* local entries the current sync has visited
  fault,           \* the failure the environment injected in the last step
  faulted,         \* whether any operation failed in this invocation
  lost,            \* whether the remote session has failed in this invocation
  faultsLeft,      \* failures the environment may still inject
  prev,            \* the invocation before the current one, when it was a sync:
                   \* its call, and whether it returned a report without errors
  pureCall         \* a call of one of the pure functions: its arguments and result

vars == <<currentConfig, currentProfile, local, remote, remote0, listStyle, cwd, clock,
          pc, call, stack, results, response, openConns, opened, ops, visited, fault,
          faulted, lost, faultsLeft, prev, pureCall>>

(***************************************************************************)
(* Helpers of syncFiles.                                                   *)
(***************************************************************************)
NoStats == [uploaded |-> 0, downloaded |-> 0, skipped |-> 0, errors |-> <<>>, ignored |-> 0]

\* seeded defect: the loop lacks the continue, and the ignored entry goes on
\* to be handled as a file that is up to date
StatsIgnoredThenSkipped(s) == [s EXCEPT !.ignored = @ + 1, !.skipped = @ + 1]

\* seeded defect: shouldUpload stays true for a file that is up to date
StatsSkippedThenUploaded(s) == [s EXCEPT !.skipped = @ + 1, !.uploaded = @ + 1]

\* seeded defect: the catch of the loop swallows the error
StatsErrorSwallowed(s, path, message) == s

\* stats.ignored++
StatsIgnored(s) == [s EXCEPT !.ignored = @ + 1]

\* stats.skipped++
StatsSkipped(s) == [s EXCEPT !.skipped = @ + 1]

\* stats.uploaded++
StatsUploaded(s) == [s EXCEPT !.uploaded = @ + 1]

\* stats.errors.push(`${localFilePath}: ${error.message}`)
StatsError(s, path, message) ==
  [s EXCEPT !.errors = Append(@, [path |-> path, message |-> message])]

\* seeded defect: the sub-directory's report replaces the running totals
MergeStatsOverwrites(s, sub) == sub

\* the sub-directory's report merged into the running totals
MergeStats(s, sub) ==
  [uploaded   |-> s.uploaded + sub.uploaded,
   downloaded |-> s.downloaded + sub.downloaded,
   skipped    |-> s.skipped + sub.skipped,
   ignored    |-> s.ignored + sub.ignored,
   errors     |-> s.errors \o sub.errors]

\* loadIgnorePatterns(localPath): the defaults, then .ftpignore, then
\* .gitignore of the sync root, for the roots that have the one or the
\* other; a file that cannot be read adds nothing
loadIgnorePatterns(hasFtpignore, hasGitignore) ==
  DEFAULT_IGNORE_PATTERNS
  \o (IF hasFtpignore THEN IgnoreFileLines(FtpignoreContent) ELSE <<>>)
  \o (IF hasGitignore THEN IgnoreFileLines(GitignoreContent) ELSE <<>>)

\* ignorePatterns = [...ignorePatterns, ...extraExclude], when there are any
WithExtraExclude(ignorePatterns, extraExclude) ==
  IF Len(extraExclude) > 0 THEN ignorePatterns \o extraExclude ELSE ignorePatterns

\* what the lookup of a remote counterpart returns for a remote entry:
\* client.stat over SFTP, with modifyTime in milliseconds; the FileInfo of
\* client.list over FTP, which has modifiedAt when the server lists by MLSD
\* (style "mlsd") and otherwise only the listing's text rawModifiedAt, which
\* new Date() can read (style "list") or cannot (style "listbad")
RemoteStat(useSFTP, style, entry) ==
  IF useSFTP
    THEN [modifyTime |-> Num(entry.mtime), modifiedAt |-> Undefined,
          rawModifiedAt |-> [parses |-> FALSE, t |-> 0]]
  ELSE IF style = "mlsd"
    THEN [modifyTime |-> Undefined, modifiedAt |-> Num(entry.mtime),
          rawModifiedAt |-> [parses |-> TRUE, t |-> entry.mtime]]
  ELSE [modifyTime |-> Undefined, modifiedAt |-> Undefined,
        rawModifiedAt |-> [parses |-> style = "list", t |-> entry.mtime]]

\* new Date(raw): the time the text stands for, or an Invalid Date
ParseDate(raw) == IF raw.parses THEN Num(raw.t) ELSE NaN

\* remoteStat.modifyTime || remoteStat.modifiedAt || new Date(remoteStat.rawModifiedAt)
remoteTime(remoteStat) ==
  IF Truthy(remoteStat.modifyTime, FALSE) THEN remoteStat.modifyTime
  ELSE IF Truthy(remoteStat.modifiedAt, TRUE) THEN remoteStat.modifiedAt
  ELSE ParseDate(remoteStat.rawModifiedAt)

\* whether the found remote counterpart makes the sync skip the file:
\* localStat.mtime <= remoteTime
SkipsUpload(localMtime, remoteStat) == LessEq(Num(localMtime), remoteTime(remoteStat))

\* the ignorePatterns of the syncFiles call at nesting depth n (1 for the
\* top-level call): every call appends extraExclude to what it was given
RECURSIVE PatternsAtDepth(_, _, _)
PatternsAtDepth(loaded, extraExclude, n) ==
  IF n = 0 THEN loaded
  ELSE WithExtraExclude(PatternsAtDepth(loaded, extraExclude, n - 1), extraExclude)

\* the extra excludes a deployment of the configuration file may pass
ExtraExcludes == {<<>>} \cup {ConfigFile.deployments[d].exclude : d \in DeploymentNames}

\* shouldIgnore for every local path under every list of patterns a sync
\* of the model can hold, computed once: by whether the sync root has the
\* two ignore files, by the extra excludes and by the nesting depth
IgnoredPaths ==
  [ftp \in BOOLEAN, git \in BOOLEAN, extra \in ExtraExcludes, n \in 1..2 |->
     {p \in LocalPaths :
        /\ Len(p) = n
        /\ shouldIgnore(p, PatternsAtDepth(loadIgnorePatterns(ftp, git), extra, n))}]

\* the frame of one syncFiles call
SyncFrame(path, entries) ==
  [path |-> path, entries |-> entries, idx |-> 1, stats |-> NoStats]

(***************************************************************************)
(* The handler's session and connection.                                   *)
(***************************************************************************)
\* seeded defect: an incomplete active configuration is loaded anew
LoadedConfigReloads ==
  IF /\ currentConfig.set
     /\ currentConfig.host # <<>> /\ currentConfig.user # "" /\ currentConfig.password # ""
    THEN currentConfig
    ELSE ConfigFile.profiles["default"]

\* loadFTPConfig(): the profile "default" of the configuration file
LoadedConfig == IF currentConfig.set THEN currentConfig ELSE ConfigFile.profiles["default"]
LoadedProfile == IF currentConfig.set THEN currentProfile ELSE "default"

HasCredentials(cfg) == cfg.host # <<>> /\ cfg.user # "" /\ cfg.password # ""

\* client.end() / client.close() of the finally block
CloseClient(n) == n - 1

NoCall == [tool |-> "none", direction |-> "none", useSFTP |-> FALSE, maxDepth |-> 0,
           start |-> <<>>, extraExclude |-> <<>>, deployment |-> "", path |-> <<>>,
           files |-> <<>>]

\* no pure function has been called
NoPureCall == [fn |-> "none"]

NoResponse == [tool |-> "none", direction |-> "none", isError |-> FALSE,
               outcome |-> "none", stats |-> NoStats, tree |-> <<>>]

Respond(c, isError, outcome, stats, tree) ==
  [tool |-> c.tool, direction |-> c.direction, isError |-> isError,
   outcome |-> outcome, stats |-> stats, tree |-> tree]

Top == stack[Len(stack)]
SetTop(st, f) == [st EXCEPT ![Len(st)] = f]
CurName == Top.entries[Top.idx]
CurPath == Append(Top.path, CurName)

\* shouldIgnore(localFilePath, ignorePatterns, basePath) for the entry at
\* hand of the running syncFiles call
CurIgnored ==
  CurPath \in IgnoredPaths[local[<<".ftpignore">>].kind = "file",
                           local[<<".gitignore">>].kind = "file",
                           call.extraExclude, Len(stack)]

\* what every invocation resets when it begins
Begin ==
  /\ pc = "idle"
  /\ prev' = IF call.tool \in {"ftp_sync", "ftp_deploy"}
               THEN [call |-> call,
                     clean |-> response.outcome = "ok" /\ response.stats.errors = <<>>]
               ELSE [call |-> NoCall, clean |-> FALSE]
  /\ remote0' = remote
  /\ visited' = {}
  /\ results' = <<>>
  /\ lost' = FALSE
  /\ UNCHANGED <<cwd, pureCall>>

\* seeded defect: the handler connects before it looks anything up, and
\* closes the connection when it returns
ReturnAfterConnect(c, r) ==
  /\ call' = c
  /\ response' = r
  /\ opened' = 1
  /\ pc' = "idle"
  /\ stack' = <<>>
  /\ UNCHANGED <<openConns, remote, local, listStyle>>

\* the invocation returns r without having opened a connection
ReturnUnconnected(c, r) ==
  /\ call' = c
  /\ response' = r
  /\ opened' = 0
  /\ pc' = "idle"
  /\ stack' = <<>>
  /\ UNCHANGED <<openConns, remote, local, listStyle>>

\* connectFTP / connectSFTP throws as operation f fails: "connect", no
\* transport is established; "login", the server has accepted the transport
\* and rejects the login. The client that connectFTP created is dropped
\* without close(), so the control connection of a rejected FTP login stays
\* open; the SFTP client is taken to end its connection itself when
\* connect() fails
ConnectFails(c, f) ==
  /\ call' = c
  /\ response' = Respond(c, TRUE, "error", NoStats, <<>>)
  /\ opened' = IF f = "login" THEN 1 ELSE 0
  /\ openConns' = IF f = "login" /\ ~c.useSFTP THEN openConns + 1 ELSE openConns
  /\ pc' = "idle"
  /\ stack' = <<>>
  /\ UNCHANGED <<remote, local, listStyle>>

\* the invocation opened its connection and returns r at once; the finally
\* block closes the connection
ReturnConnected(c, r) ==
  /\ call' = c
  /\ response' = r
  /\ opened' = 1
  /\ openConns' = CloseClient(openConns + 1)
  /\ pc' = "idle"
  /\ stack' = <<>>
  /\ UNCHANGED <<local, listStyle>>

\* the invocation opened its connection and goes on in state p with frame f
Continue(c, p, f) ==
  /\ call' = c
  /\ opened' = 1
  /\ openConns' = openConns + 1
  /\ pc' = p
  /\ stack' = <<f>>
  /\ UNCHANGED <<response, remote, local, listStyle>>

\* a running invocation returns r; the finally block closes the connection
Finish(r) ==
  /\ response' = r
  /\ openConns' = CloseClient(openConns)
  /\ pc' = "idle"
  /\ stack' = <<>>

\* seeded defect: every invocation loads the configuration anew
SetSessionReloads ==
  /\ currentConfig' = ConfigFile.profiles["default"]
  /\ currentProfile' = "default"

\* the lazy load of the configuration before the tool switch
SetSession ==
  /\ currentConfig' = LoadedConfig
  /\ currentProfile' = LoadedProfile

IsRemoteDir(p) == p = <<>> \/ remote[p].kind = "dir"

\* the environment lets the step's operations succeed (f = "none") or makes
\* operation f fail, as long as it has failures left
Inject(f) ==
  /\ f # "none" => faultsLeft > 0
  /\ faultsLeft' = IF f = "none" THEN faultsLeft ELSE faultsLeft - 1
  /\ fault' = f

\* operation f fails because of the state of the store (f = "none": none does)
Fails(f) ==
  /\ faultsLeft' = faultsLeft
  /\ fault' = f

(***************************************************************************)
(* ftp_connect                                                             *)
(***************************************************************************)
\* the configuration of the environment variables, none of which is set
EnvConfig == [set |-> TRUE, host |-> <<>>, user |-> "", password |-> ""]

CallConnect(profile, useEnv) ==
  /\ Begin
  /\ ops' = {}
  /\ Fails("none")
  /\ faulted' = FALSE
  /\ UNCHANGED clock
  /\ LET c == [NoCall EXCEPT !.tool = "ftp_connect"]
     IN  IF ~useEnv /\ profile # "" /\ profile \notin ProfileNames
           THEN /\ ReturnUnconnected(c, Respond(c, TRUE, "error", NoStats, <<>>))
                /\ UNCHANGED <<currentConfig, currentProfile>>
           ELSE LET cfg == IF useEnv THEN EnvConfig
                           ELSE IF profile = "" THEN ConfigFile.profiles["default"]
                           ELSE ConfigFile.profiles[profile]
                IN  /\ currentConfig' = cfg
                    /\ currentProfile' = IF useEnv THEN currentProfile
                                         ELSE IF profile = "" THEN "default" ELSE profile
                    /\ ReturnUnconnected(c, Respond(c, FALSE,
                         IF HasCredentials(cfg) THEN "ok" ELSE "nocreds", NoStats, <<>>))

(***************************************************************************)
(* The tools of the switch: what happens before the tool's own code.       *)
(***************************************************************************)
\* the invocation ends before the switch: the credentials are incomplete,
\* or the connection cannot be established
CallRejected(tool) ==
  /\ Begin
  /\ SetSession
  /\ ops' = {}
  /\ UNCHANGED clock
  /\ LET c == [NoCall EXCEPT !.tool = tool, !.useSFTP = isSFTP(LoadedConfig.host)]
     IN  IF ~HasCredentials(LoadedConfig)
           THEN /\ ReturnUnconnected(c, Respond(c, FALSE, "nocreds", NoStats, <<>>))
                /\ Fails("none")
                /\ faulted' = FALSE
           ELSE \E f \in {"connect", "login"} :
                  /\ ConnectFails(c, f)
                  /\ Inject(f)
                  /\ faulted' = TRUE

(***************************************************************************)
(* syncFiles                                                               *)
(***************************************************************************)
\* the top-level call of syncFiles by a handler that holds a connection
StartSync(c) ==
  /\ ops' = {}
  /\ IF c.direction \notin {"upload", "both"}
       THEN /\ ReturnConnected(c, Respond(c, FALSE, "ok", NoStats, <<>>))
            /\ remote' = remote
            /\ Fails("none")
            /\ faulted' = FALSE
       ELSE \E f \in {"none", "readdir"} :
              /\ Inject(f)
              /\ faulted' = (f # "none")
              /\ IF f = "none"
                   THEN Continue(c, "sync", SyncFrame(<<>>, Listing(local, <<>>)))
                   ELSE /\ ReturnConnected(c, Respond(c, TRUE, "error", NoStats, <<>>))
                        /\ remote' = remote

\* ftp_sync
CallSync(direction) ==
  /\ Begin
  /\ SetSession
  /\ HasCredentials(LoadedConfig)
  /\ UNCHANGED clock
  /\ StartSync([NoCall EXCEPT !.tool = "ftp_sync", !.direction = direction,
                              !.useSFTP = isSFTP(LoadedConfig.host)])

\* ftp_deploy
CallDeploy(deployment) ==
  /\ Begin
  /\ LET c0 == [NoCall EXCEPT !.tool = "ftp_deploy", !.direction = "upload",
                              !.deployment = deployment]
     IN  IF \/ deployment \notin DeploymentNames
            \/ ConfigFile.deployments[deployment].profile \notin ProfileNames
           THEN /\ ReturnUnconnected(c0, Respond(c0, TRUE, "notfound", NoStats, <<>>))
                /\ ops' = {}
                /\ Fails("none")
                /\ faulted' = FALSE
                /\ UNCHANGED <<currentConfig, currentProfile, clock>>
           ELSE LET d   == ConfigFile.deployments[deployment]
                    cfg == ConfigFile.profiles[d.profile]
                    c   == [c0 EXCEPT !.useSFTP = isSFTP(cfg.host),
                                      !.extraExclude = d.exclude]
                IN  /\ currentConfig' = cfg
                    /\ currentProfile' = d.profile
                    /\ UNCHANGED clock
                    /\ \/ StartSync(c)
                       \/ \E f \in {"connect", "login"} :
                            /\ ConnectFails(c, f)
                            /\ ops' = {}
                            /\ Inject(f)
                            /\ faulted' = TRUE

InSync == pc = "sync" /\ Top.idx <= Len(Top.entries)

\* what may fail at an entry of the loop: one of the entry's operations, or
\* the remote session ("lost"), after which every remote operation of the
\* invocation fails
SyncFaults(operations) == IF lost THEN {"lost"} ELSE {"none", "lost"} \cup operations

InjectOrLost(f) ==
  /\ IF lost THEN Fails(f) ELSE Inject(f)
  /\ lost' = (f = "lost")

\* one entry of the loop that matches the ignore rules
SyncIgnored ==
  /\ InSync
  /\ CurIgnored
  /\ stack' = SetTop(stack, [Top EXCEPT !.stats = StatsIgnored(@), !.idx = @ + 1])
  /\ visited' = visited \cup {CurPath}
  /\ Fails("none")
  /\ UNCHANGED <<currentConfig, currentProfile, local, cwd, pureCall, lost, remote0, remote, listStyle, clock, pc, call,
                 results, response, openConns, opened, ops, faulted, prev>>

\* one entry of the loop that is a directory: the remote directory is
\* created and syncFiles is called for the directory
SyncDirectory ==
  /\ InSync
  /\ ~CurIgnored
  /\ local[CurPath].kind = "dir"
  /\ visited' = visited \cup {CurPath}
  /\ ops' = ops \cup {[op |-> "mkdir", path |-> CurPath]}
  /\ \E f \in SyncFaults({"mkdir", "readdir"}) :
       /\ InjectOrLost(f)
       /\ faulted' = (faulted \/ f # "none")
       /\ remote' = IF f \in {"mkdir", "lost"} THEN remote
                    ELSE [remote EXCEPT ![CurPath] = Dir]
       /\ stack' =
            IF f = "none"
              THEN Append(SetTop(stack, [Top EXCEPT !.idx = @ + 1]),
                          SyncFrame(CurPath, Listing(local, CurPath)))
              ELSE SetTop(stack, [Top EXCEPT !.idx = @ + 1,
                                             !.stats = StatsError(@, CurPath, f)])
  /\ UNCHANGED <<currentConfig, currentProfile, local, cwd, pureCall, remote0, listStyle, clock, pc, call,
                 results, response, openConns, opened, prev>>

\* seeded defect: the counterpart is removed before it is compared
LookupOpDeletes(useSFTP, dir, path) == [op |-> "delete", path |-> path]

\* the remote operation that looks the counterpart of a file up
LookupOp(useSFTP, dir, path) ==
  IF useSFTP THEN [op |-> "stat", path |-> path] ELSE [op |-> "list", path |-> dir]

\* one entry of the loop that is a file: it is compared with its remote
\* counterpart and uploaded or skipped
SyncFile ==
  /\ InSync
  /\ ~CurIgnored
  /\ local[CurPath].kind = "file"
  /\ visited' = visited \cup {CurPath}
  /\ \E f \in SyncFaults({"lstat", "lookup", "put"}) :
       LET entry == remote[CurPath]
           found == f \notin {"lookup", "lost"} /\ entry.kind # "none"
           skip  == found /\ SkipsUpload(local[CurPath].mtime,
                                         RemoteStat(call.useSFTP, listStyle, entry))
       IN  /\ f = "put" => ~skip
           /\ InjectOrLost(f)
           /\ faulted' = (faulted \/ f # "none")
           /\ ops' = IF f = "lstat" THEN ops
                     ELSE ops \cup {LookupOp(call.useSFTP, Top.path, CurPath)}
                              \cup (IF skip THEN {} ELSE {[op |-> "put", path |-> CurPath]})
           /\ remote' = IF f \in {"none", "lookup"} /\ ~skip
                          THEN [remote EXCEPT ![CurPath] = File(clock)] ELSE remote
           /\ stack' = SetTop(stack, [Top EXCEPT !.idx = @ + 1, !.stats =
                         IF f = "lstat" THEN StatsError(@, CurPath, f)
                         ELSE IF skip THEN StatsSkipped(@)
                         ELSE IF f \in {"put", "lost"} THEN StatsError(@, CurPath, f)
                         ELSE StatsUploaded(@)])
  /\ UNCHANGED <<currentConfig, currentProfile, local, cwd, pureCall, remote0, listStyle, clock, pc, call,
                 results, response, openConns, opened, prev>>

\* the loop of one syncFiles call is done: its report is merged into the
\* caller's, or, for the top-level call, returned by the handler
SyncReturn ==
  /\ pc = "sync"
  /\ Top.idx > Len(Top.entries)
  /\ Fails("none")
  /\ IF Len(stack) > 1
       THEN /\ stack' = SetTop(SubSeq(stack, 1, Len(stack) - 1),
                          [stack[Len(stack) - 1] EXCEPT !.stats = MergeStats(@, Top.stats)])
            /\ UNCHANGED <<pc, response, openConns>>
       ELSE Finish(Respond(call, FALSE, "ok", Top.stats, <<>>))
  /\ UNCHANGED <<currentConfig, currentProfile, local, cwd, pureCall, lost, remote0, remote, listStyle, clock, call,
                 results, opened, ops, visited, faulted, prev>>

(***************************************************************************)
(* getTreeRecursive                                                        *)
(***************************************************************************)
TreeFrame(path, depth, entries) ==
  [path |-> path, depth |-> depth, entries |-> entries, idx |-> 1]

\* seeded defect: if (depth >= maxDepth) return []
ListsAtDepthOffByOne(depth, maxDepth) == ~(depth >= maxDepth)

\* if (depth > maxDepth) return []: whether the call lists its directory
ListsAtDepth(depth, maxDepth) == ~(depth > maxDepth)

\* seeded defect: every directory entry is walked
RecursesIntoDots(isDir, name) == isDir

\* if (isDir && fileName !== '.' && fileName !== '..')
Recurses(isDir, name) == isDir /\ name \notin {".", ".."}

\* ftp_tree
CallTree(start, maxDepth) ==
  /\ Begin
  /\ SetSession
  /\ HasCredentials(LoadedConfig)
  /\ UNCHANGED clock
  /\ LET c == [NoCall EXCEPT !.tool = "ftp_tree", !.start = start, !.maxDepth = maxDepth,
                             !.useSFTP = isSFTP(LoadedConfig.host)]
     IN  IF ~ListsAtDepth(0, maxDepth)
           THEN /\ ReturnConnected(c, Respond(c, FALSE, "ok", NoStats, <<>>))
                /\ remote' = remote
                /\ ops' = {}
                /\ Fails("none")
                /\ faulted' = FALSE
           ELSE /\ ops' = {[op |-> "list", path |-> start]}
                /\ IF ~IsRemoteDir(start)
                     THEN /\ Fails("list")
                          /\ faulted' = TRUE
                          /\ ReturnConnected(c, Respond(c, TRUE, "error", NoStats, <<>>))
                          /\ remote' = remote
                     ELSE \E f \in {"none", "list"} :
                            /\ Inject(f)
                            /\ faulted' = (f # "none")
                            /\ IF f = "none"
                                 THEN Continue(c, "tree",
                                        TreeFrame(start, 0, WalkListing(remote, start)))
                                 ELSE /\ ReturnConnected(c,
                                           Respond(c, TRUE, "error", NoStats, <<>>))
                                      /\ remote' = remote

\* one entry of the loop of getTreeRecursive: it is emitted, and a
\* directory other than '.' and '..' is walked by a recursive call
TreeEntry ==
  /\ pc = "tree"
  /\ Top.idx <= Len(Top.entries)
  /\ LET isDir == WalkEntry(remote, CurPath).kind = "dir"
         item  == [path |-> CurPath, name |-> CurName, isDirectory |-> isDir]
         recurse == Recurses(isDir, CurName)
         lists == recurse /\ ListsAtDepth(Top.depth + 1, call.maxDepth)
     IN  \E f \in {"none", "list"} :
           /\ f = "list" => lists
           /\ Inject(f)
           /\ ops' = IF lists THEN ops \cup {[op |-> "list", path |-> CurPath]} ELSE ops
           /\ IF f = "none"
                THEN /\ results' = Append(results, item)
                     /\ stack' =
                          IF lists
                            THEN Append(SetTop(stack, [Top EXCEPT !.idx = @ + 1]),
                                        TreeFrame(CurPath, Top.depth + 1,
                                                  WalkListing(remote, CurPath)))
                            ELSE SetTop(stack, [Top EXCEPT !.idx = @ + 1])
                     /\ UNCHANGED <<faulted, pc, response, openConns>>
                ELSE /\ results' = results
                     /\ faulted' = TRUE
                     /\ Finish(Respond(call, TRUE, "error", NoStats, <<>>))
  /\ UNCHANGED <<currentConfig, currentProfile, local, cwd, pureCall, lost, remote0, remote, listStyle, clock, call,
                 opened, visited, prev>>

\* the loop of one getTreeRecursive call is done
TreeReturn ==
  /\ pc = "tree"
  /\ Top.idx > Len(Top.entries)
  /\ Fails("none")
  /\ IF Len(stack) > 1
       THEN /\ stack' = SubSeq(stack, 1, Len(stack) - 1)
            /\ UNCHANGED <<pc, response, openConns>>
       ELSE Finish(Respond(call, FALSE, "ok", NoStats, results))
  /\ UNCHANGED <<currentConfig, currentProfile, local, cwd, pureCall, lost, remote0, remote, listStyle, clock, call,
                 results, opened, ops, visited, faulted, prev>>

(***************************************************************************)
(* ftp_copy                                                                *)
(***************************************************************************)
\* seeded defect: the copy is attempted on every connection
SupportsCopyAlways(useSFTP) == TRUE

\* the capability test of the handler: only the SFTP client copies
SupportsCopy(useSFTP) == useSFTP

CallCopy(sourcePath, destPath) ==
  /\ Begin
  /\ SetSession
  /\ HasCredentials(LoadedConfig)
  /\ UNCHANGED clock
  /\ LET c == [NoCall EXCEPT !.tool = "ftp_copy", !.useSFTP = isSFTP(LoadedConfig.host)]
     IN  IF ~SupportsCopy(c.useSFTP)
           THEN /\ ReturnConnected(c, Respond(c, FALSE, "unsupported", NoStats, <<>>))
                /\ remote' = remote
                /\ ops' = {}
                /\ Fails("none")
                /\ faulted' = FALSE
           ELSE IF remote[sourcePath].kind # "file"
           THEN /\ ReturnConnected(c, Respond(c, TRUE, "error", NoStats, <<>>))
                /\ remote' = remote
                /\ ops' = {[op |-> "get", path |-> sourcePath]}
                /\ Fails("get")
                /\ faulted' = TRUE
           ELSE \E f \in {"none", "get", "put"} :
                  /\ Inject(f)
                  /\ faulted' = (f # "none")
                  /\ ops' = {[op |-> "get", path |-> sourcePath]}
                            \cup (IF f = "get" THEN {} ELSE {[op |-> "put", path |-> destPath]})
                  /\ remote' = IF f = "none" THEN [remote EXCEPT ![destPath] = File(clock)]
                               ELSE remote
                  /\ ReturnConnected(c, Respond(c, f # "none",
                                                IF f = "none" THEN "ok" ELSE "error",
                                                NoStats, <<>>))

(***************************************************************************)
(* ftp_stat and ftp_exists                                                 *)
(***************************************************************************)
\* s.lastIndexOf(c), counted from 0; -1 when c does not occur in s
RECURSIVE lastIndexOf(_, _)
lastIndexOf(s, c) ==
  IF s = <<>> THEN -1
  ELSE IF s[Len(s)] = c THEN Len(s) - 1
  ELSE lastIndexOf(SubSeq(s, 1, Len(s) - 1), c)

\* an index argument of substring, clamped to the string
ClampIndex(s, i) == IF i < 0 THEN 0 ELSE IF i > Len(s) THEN Len(s) ELSE i

\* s.substring(from, to), indices counted from 0
substring(s, from, to) ==
  LET a == ClampIndex(s, from)
      b == ClampIndex(s, to)
  IN  IF a <= b THEN SubSeq(s, a + 1, b) ELSE SubSeq(s, b + 1, a)

\* path.substring(0, path.lastIndexOf('/')) || '.'
dirPath(path) ==
  LET d == substring(path, 0, lastIndexOf(path, "/"))
  IN  IF d = <<>> THEN <<".">> ELSE d

\* path.substring(path.lastIndexOf('/') + 1)
fileName(path) == substring(path, lastIndexOf(path, "/") + 1, Len(path))

\* the name of the store that is spelled chars ("?" when there is none)
NameOf(chars) ==
  IF \E n \in Names : Chars[n] = chars
    THEN CHOOSE n \in Names : Chars[n] = chars
    ELSE "?"

\* the segments segs of a path, followed from directory dir
RECURSIVE Follow(_, _)
Follow(dir, segs) ==
  IF segs = <<>> THEN dir
  ELSE IF Head(segs) \in {<<>>, <<".">>} THEN Follow(dir, Tail(segs))
  ELSE Follow(Append(dir, NameOf(Head(segs))), Tail(segs))

\* the place in the store the server takes a path argument to name: an
\* absolute path is followed from the root, any other from the directory
\* the session is in
Resolve(path) ==
  Follow(IF StartsWith(path, <<"/">>) THEN <<>> ELSE cwd, SplitSlash(path))

\* the entry of the remote store at p
RemoteAt(p) ==
  IF p = <<>> THEN Dir
  ELSE IF p \in RemotePaths THEN remote[p]
  ELSE Absent

\* the lookup both handlers make: client.stat(path) over SFTP; over FTP
\* client.list(dirPath) and a search of the listing for fileName.  at is
\* the place the operation addresses, found whether it yields the entry,
\* throws whether the store makes the operation throw (a missing path for
\* stat), mayThrow whether it can (a server answers the listing of a
\* missing directory with an error or with no entries)
Lookup(useSFTP, path) ==
  IF useSFTP
    THEN [op |-> "stat", at |-> Resolve(path),
          found |-> RemoteAt(Resolve(path)).kind # "none",
          throws |-> RemoteAt(Resolve(path)).kind = "none",
          mayThrow |-> FALSE]
    ELSE LET at    == Resolve(dirPath(path))
             files == IF RemoteAt(at).kind = "dir" THEN Listing(remote, at) ELSE <<>>
         IN  [op |-> "list", at |-> at,
              found |-> \E i \in 1..Len(files) : Chars[files[i]] = fileName(path),
              throws |-> FALSE,
              mayThrow |-> RemoteAt(at).kind # "dir"]

\* the lookup succeeds (f = "none") or its operation fails, for the state
\* of the store or because the environment makes it
LookupFails(l, f) ==
  /\ f \in {"none", l.op}
  /\ f = "none" => ~l.throws
  /\ IF f # "none" /\ (l.throws \/ l.mayThrow) THEN Fails(f) ELSE Inject(f)
  /\ faulted' = (f # "none")
  /\ ops' = {[op |-> l.op, path |-> l.at]}

\* the path arguments of the model
PathArgs ==
  { <<"r", ".", "t", "x", "t">>,
    <<"/", "r", ".", "t", "x", "t">>,
    <<"d", ".", "t", "x", "t">>,
    <<"/", "d", ".", "t", "x", "t">>,
    <<"s", "u", "b", "/", "d", ".", "t", "x", "t">>,
    <<"/", "s", "u", "b", "/", "d", ".", "t", "x", "t">>,
    <<"q", ".", "t", "x", "t">>,
    <<"s", "u", "b">> }

CallStat(path) ==
  /\ Begin
  /\ SetSession
  /\ HasCredentials(LoadedConfig)
  /\ UNCHANGED <<clock, remote>>
  /\ LET c == [NoCall EXCEPT !.tool = "ftp_stat", !.useSFTP = isSFTP(LoadedConfig.host),
                             !.path = path]
         l == Lookup(c.useSFTP, path)
     IN  \E f \in {"none", l.op} :
           /\ LookupFails(l, f)
           /\ ReturnConnected(c,
                IF f # "none" THEN Respond(c, TRUE, "error", NoStats, <<>>)
                ELSE IF ~l.found THEN Respond(c, TRUE, "notfound", NoStats, <<>>)
                ELSE Respond(c, FALSE, "ok", NoStats, <<>>))

\* seeded defect: a failed lookup leaves the answer to what the store holds
ExistsResultUnguarded(failed, found) == found

\* the value of exists after the try block: the lookup's answer, and false
\* when the lookup threw
ExistsResult(failed, found) == ~failed /\ found

CallExists(path) ==
  /\ Begin
  /\ SetSession
  /\ HasCredentials(LoadedConfig)
  /\ UNCHANGED <<clock, remote>>
  /\ LET c == [NoCall EXCEPT !.tool = "ftp_exists", !.useSFTP = isSFTP(LoadedConfig.host),
                             !.path = path]
         l == Lookup(c.useSFTP, path)
     IN  \E f \in {"none", l.op} :
           /\ LookupFails(l, f)
           /\ ReturnConnected(c,
                Respond(c, FALSE,
                        IF ExistsResult(f # "none", l.found) THEN "true" ELSE "false",
                        NoStats, <<>>))

(***************************************************************************)
(* ftp_chmod and ftp_disk_space                                            *)
(***************************************************************************)
CallChmod(path) ==
  /\ Begin
  /\ SetSession
  /\ HasCredentials(LoadedConfig)
  /\ UNCHANGED <<clock, remote>>
  /\ LET c == [NoCall EXCEPT !.tool = "ftp_chmod", !.useSFTP = isSFTP(LoadedConfig.host),
                             !.path = path]
         at == Resolve(path)
     IN  IF ~c.useSFTP
           THEN /\ ReturnConnected(c, Respond(c, FALSE, "unsupported", NoStats, <<>>))
                /\ ops' = {}
                /\ Fails("none")
                /\ faulted' = FALSE
           ELSE \E f \in {"none", "chmod"} :
                  /\ f = "none" => RemoteAt(at).kind # "none"
                  /\ IF RemoteAt(at).kind = "none" THEN Fails(f) ELSE Inject(f)
                  /\ faulted' = (f # "none")
                  /\ ops' = {[op |-> "chmod", path |-> at]}
                  /\ ReturnConnected(c, Respond(c, f # "none",
                                                IF f = "none" THEN "ok" ELSE "error",
                                                NoStats, <<>>))

CallDiskSpace ==
  /\ Begin
  /\ SetSession
  /\ HasCredentials(LoadedConfig)
  /\ UNCHANGED <<clock, remote>>
  /\ LET c == [NoCall EXCEPT !.tool = "ftp_disk_space", !.useSFTP = isSFTP(LoadedConfig.host),
                             !.path = <<".">>]
     IN  IF ~c.useSFTP
           THEN /\ ReturnConnected(c, Respond(c, FALSE, "unsupported", NoStats, <<>>))
                /\ ops' = {}
                /\ Fails("none")
                /\ faulted' = FALSE
           ELSE \E f \in {"none", "statvfs"} :
                  /\ Inject(f)
                  /\ faulted' = (f # "none")
                  /\ ops' = {[op |-> "statvfs", path |-> Resolve(c.path)]}
                  /\ ReturnConnected(c, Respond(c, FALSE,
                                                IF f = "none" THEN "ok" ELSE "unavailable",
                                                NoStats, <<>>))

(***************************************************************************)
(* ftp_batch_upload and ftp_batch_download                                 *)
(***************************************************************************)
\* the files a batch request may name: a local and a remote path each
BatchFiles ==
  { [localPath |-> <<"a.txt">>, remotePath |-> <<"a.txt">>],
    [localPath |-> <<"b.txt">>, remotePath |-> <<"b.txt">>],
    [localPath |-> <<"c.txt">>, remotePath |-> <<"r.txt">>] }

\* the requests of the model: up to MaxBatch files, in any order, repeats
\* included
BatchRequests == UNION {[1..n -> BatchFiles] : n \in 0..MaxBatch}

\* const results = { success: [], failed: [] }: the loop's position and the
\* failed list; the success list is the variable results
BatchFrame(files) == [entries |-> files, idx |-> 1, failed |-> <<>>]

\* seeded defect: the catch of the loop drops the failure
BatchFailedDropped(failed, path, message) == failed

\* results.failed.push({ path: file.remotePath, error: error.message })
BatchFailed(failed, path, message) == Append(failed, [path |-> path, message |-> message])

\* the transfer of one file of a batch
TransferOp(tool, file) ==
  [op |-> IF tool = "ftp_batch_upload" THEN "put" ELSE "get", path |-> file.remotePath]

\* whether the stores let the transfer succeed: the file to send, or the
\* file to fetch, exists
CanTransfer(tool, file) ==
  IF tool = "ftp_batch_upload"
    THEN local[file.localPath].kind = "file"
    ELSE remote[file.remotePath].kind = "file"

CallBatch(tool, files) ==
  /\ Begin
  /\ SetSession
  /\ HasCredentials(LoadedConfig)
  /\ UNCHANGED clock
  /\ ops' = {}
  /\ Fails("none")
  /\ faulted' = FALSE
  /\ Continue([NoCall EXCEPT !.tool = tool, !.useSFTP = isSFTP(LoadedConfig.host),
                             !.files = files],
              "batch", BatchFrame(files))

InBatch == pc = "batch" /\ Top.idx <= Len(Top.entries)

\* one file of the loop: it is transferred and its remote path pushed on
\* success, or the failure is caught and pushed on failed
BatchStep ==
  /\ InBatch
  /\ LET file == Top.entries[Top.idx]
     IN  \E f \in SyncFaults({"transfer"}) :
           /\ f = "none" => CanTransfer(call.tool, file)
           /\ IF f = "transfer" /\ ~CanTransfer(call.tool, file)
                THEN Fails(f) /\ lost' = lost
                ELSE InjectOrLost(f)
           /\ faulted' = (faulted \/ f # "none")
           /\ ops' = ops \cup {TransferOp(call.tool, file)}
           /\ remote' = IF f = "none" /\ call.tool = "ftp_batch_upload"
                          THEN [remote EXCEPT ![file.remotePath] = File(clock)]
                          ELSE remote
           /\ local' = IF f = "none" /\ call.tool = "ftp_batch_download"
                         THEN [local EXCEPT ![file.localPath] = remote[file.remotePath]]
                         ELSE local
           /\ results' = IF f = "none" THEN Append(results, file.remotePath) ELSE results
           /\ stack' = SetTop(stack, [Top EXCEPT !.idx = @ + 1, !.failed =
                         IF f = "none" THEN @ ELSE BatchFailed(@, file.remotePath, f)])
  /\ UNCHANGED <<currentConfig, currentProfile, cwd, pureCall, remote0, listStyle, clock, pc,
                 call, response, openConns, opened, visited, prev>>

\* the loop is done: the handler reports the two counts and the failures
BatchReturn ==
  /\ pc = "batch"
  /\ Top.idx > Len(Top.entries)
  /\ Fails("none")
  /\ Finish(Respond(call, FALSE, "ok",
                    [NoStats EXCEPT
                       !.uploaded = IF call.tool = "ftp_batch_upload" THEN Len(results) ELSE 0,
                       !.downloaded = IF call.tool = "ftp_batch_download" THEN Len(results) ELSE 0,
                       !.errors = Top.failed],
                    <<>>))
  /\ UNCHANGED <<currentConfig, currentProfile, local, cwd, pureCall, lost, remote0, remote,
                 listStyle, clock, call, results, opened, ops, visited, faulted, prev>>

(***************************************************************************)
(* shouldIgnore and getPort / isSFTP, applied to inputs of their own        *)
(***************************************************************************)
\* patterns an ignore file or a deployment's exclude list may hold
PatternPool ==
  { <<"*", ".", "t", "x", "t">>,
    <<"s", "u", "b", "/", "*", "*">>,
    <<"!", "a", ".", "t", "x", "t">>,
    <<"d", ".", "t", "x", "t">>,
    <<"s", "u", "b">>,
    <<"#", "t", "m", "p">> }

\* the lists of ignore patterns of the model: lists of at most two patterns
\* of the pool, and the lists loadIgnorePatterns returns
PatternLists ==
  {<<>>} \cup {<<q>> : q \in PatternPool}
  \cup {<<q, r>> : q \in PatternPool, r \in PatternPool}
  \cup {loadIgnorePatterns(f, g) : f \in BOOLEAN, g \in BOOLEAN}

\* the local paths shouldIgnore is asked about
IgnoreArgs ==
  {<<"a.txt">>, <<"b.txt">>, <<"sub">>, <<"sub", "d.txt">>, <<".npm", "e.txt">>,
   <<"node_modules", "pkg.js">>, <<"build", "x.tmp">>}

\* host strings of a configuration
HostArgs ==
  { <<"s", "f", "t", "p", ":", "/", "/", "h", "o", "s", "t", "1">>,
    <<"f", "t", "p", ".", "e", "x", "a", "m", "p", "l", "e", ".", "c", "o", "m">>,
    <<"s", "f", "t", "p", ".", "e", "x", "a", "m", "p", "l", "e", ".", "c", "o", "m">>,
    <<"m", "y", "s", "f", "t", "p">>,
    <<"f", "t", "p", ":", "/", "/", "h", "o", "s", "t", "1">>,
    <<"h", "o", "s", "t", "1">> }

\* values of config.port, each with the port number it stands for
PortArgs ==
  { [given |-> PortNumber(1), port |-> 1],
    [given |-> PortNumber(22), port |-> 22],
    [given |-> PortNumber(2222), port |-> 2222],
    [given |-> PortString(<<"2", "1">>), port |-> 21],
    [given |-> PortString(<<"2", "2", "2", "2">>), port |-> 2222],
    [given |-> PortString(<<"6", "5", "5", "3", "5">>), port |-> 65535] }

\* the inputs of the two functions
PureInputs ==
  {[fn |-> "none", of |-> "shouldIgnore", rel |-> rel, ignorePatterns |-> ps,
    host |-> <<>>, configured |-> FALSE, configPort |-> PortAbsent, port |-> 0,
    ignored |-> FALSE, useSFTP |-> FALSE, result |-> Undefined]
     : rel \in IgnoreArgs, ps \in PatternLists}
  \cup
  {[fn |-> "none", of |-> "getPort", rel |-> <<>>, ignorePatterns |-> <<>>,
    host |-> h, configured |-> FALSE, configPort |-> PortAbsent, port |-> 0,
    ignored |-> FALSE, useSFTP |-> FALSE, result |-> Undefined]
     : h \in HostArgs}
  \cup
  {[fn |-> "none", of |-> "getPort", rel |-> <<>>, ignorePatterns |-> <<>>,
    host |-> h, configured |-> TRUE, configPort |-> a.given, port |-> a.port,
    ignored |-> FALSE, useSFTP |-> FALSE, result |-> Undefined]
     : h \in HostArgs, a \in PortArgs}

\* shouldIgnore is applied to its input
ApplyShouldIgnore ==
  /\ pc = "idle"
  /\ pureCall.fn = "none"
  /\ pureCall.of = "shouldIgnore"
  /\ pureCall' = [pureCall EXCEPT !.fn = "shouldIgnore",
                                  !.ignored = shouldIgnore(pureCall.rel, pureCall.ignorePatterns)]
  /\ UNCHANGED <<currentConfig, currentProfile, local, remote, remote0, listStyle, cwd, clock,
                 pc, call, stack, results, response, openConns, opened, ops, visited, fault,
                 faulted, lost, faultsLeft, prev>>

\* the handler selects the client by isSFTP, and the client's connect
\* function takes its port from getPort
ApplyGetPort ==
  /\ pc = "idle"
  /\ pureCall.fn = "none"
  /\ pureCall.of = "getPort"
  /\ pureCall' = [pureCall EXCEPT !.fn = "getPort",
                                  !.useSFTP = isSFTP(pureCall.host),
                                  !.result = getPort(pureCall.host, pureCall.configPort)]
  /\ UNCHANGED <<currentConfig, currentProfile, local, remote, remote0, listStyle, cwd, clock,
                 pc, call, stack, results, response, openConns, opened, ops, visited, fault,
                 faulted, lost, faultsLeft, prev>>

(***************************************************************************)
(* Initial states.                                                         *)
(***************************************************************************)
\* a local tree: the top-level entries top, each directory with its child;
\* a.txt and b.txt with the given modification times
LocalTree(top, ta, tb) ==
  [p \in LocalPaths |->
     IF p[1] \notin top THEN Absent
     ELSE IF Len(p) = 1 /\ p[1] \in LocalDirs THEN Dir
     ELSE IF p = <<"a.txt">> THEN File(ta)
     ELSE IF p = <<"b.txt">> THEN File(tb)
     ELSE File(1)]

\* the local sync roots of the model, by their top-level entries
LocalTops ==
  { {},
    {"a.txt", "b.txt", "node_modules"},
    {"a.txt", "b.txt", "c.txt"},
    {".ftpignore", ".gitignore", "build"},
    {".env.log", ".npm", "a.txt"},
    {"b.txt", "sub"},
    {".npm"} }

LocalTrees == {LocalTree(top, ta, tb) : top \in LocalTops, ta \in Times, tb \in Times}

\* a remote store: the counterpart eb of b.txt, the file r.txt, and nested
\* directories levels deep, each holding d.txt when withFiles
RemoteStore(eb, levels, withFiles) ==
  [p \in RemotePaths |->
     IF p = <<"b.txt">> THEN eb
     ELSE IF p = <<"r.txt">> THEN File(1)
     ELSE IF \A i \in 1..Len(p) : p[i] = "sub"
       THEN (IF Len(p) <= levels THEN Dir ELSE Absent)
     ELSE IF p[Len(p)] = "d.txt" /\ \A i \in 1..(Len(p) - 1) : p[i] = "sub"
       THEN (IF withFiles /\ Len(p) - 1 <= levels THEN File(1) ELSE Absent)
     ELSE Absent]

\* store with the entries '.' and '..' in each of its directories (a server
\* that lists them) and, when looped, with the entry loop in its root
CyclicStore(store, dots, looped) ==
  [p \in WalkPaths |->
     IF p[Len(p)] \in {".", ".."}
       THEN (IF dots /\ WalkEntry(store, Parent(p)).kind = "dir" THEN Dir ELSE Absent)
     ELSE IF p = <<"loop">> THEN (IF looped THEN Dir ELSE Absent)
     ELSE store[p]]

RemoteEntries == {Absent} \cup {File(t) : t \in Times}

InitCommon ==
  /\ clock \in Times
  /\ pc = "idle"
  /\ call = NoCall
  /\ stack = <<>>
  /\ results = <<>>
  /\ response = NoResponse
  /\ openConns = 0
  /\ opened = 0
  /\ ops = {}
  /\ visited = {}
  /\ fault = "none"
  /\ faulted = FALSE
  /\ faultsLeft = MaxFaults
  /\ prev = [call |-> NoCall, clean |-> FALSE]
  /\ lost = FALSE

\* the session: no configuration loaded yet, or the one a successful
\* ftp_connect to a profile has installed
InitSession(profile) ==
  IF profile = ""
    THEN currentConfig = NoConfig /\ currentProfile = ""
    ELSE currentConfig = ConfigFile.profiles[profile] /\ currentProfile = profile

\* syncs: every local tree of the model against a remote store that holds
\* b.txt or not, over SFTP and over FTP with each way of reporting times
InitSync ==
  /\ InitCommon
  /\ \E profile \in {"", "staging"} :
       /\ InitSession(profile)
       /\ listStyle \in (IF profile = "" THEN {"mlsd", "list", "listbad"} ELSE {"mlsd"})
  /\ cwd = <<>>
  /\ pureCall = NoPureCall
  /\ local \in LocalTrees
  /\ \E eb \in RemoteEntries :
       /\ local[<<"b.txt">>].kind = "none" => eb = Absent
       /\ remote = RemoteStore(eb, 0, FALSE)
  /\ remote0 = remote

NextSync ==
  \/ CallRejected("ftp_sync")
  \/ CallSync("upload")
  \/ SyncIgnored
  \/ SyncDirectory
  \/ SyncFile
  \/ SyncReturn

SpecSync == InitSync /\ [][NextSync]_vars

\* tree walks: remote directories nested to every depth of the model
InitTree ==
  /\ InitCommon
  /\ InitSession("")
  /\ listStyle = "mlsd"
  /\ cwd = <<>>
  /\ pureCall = NoPureCall
  /\ local = LocalTree({}, 1, 1)
  /\ \E levels \in 0..TreeLevels, withFiles \in BOOLEAN :
       remote = RemoteStore(Absent, levels, withFiles)
  /\ remote0 = remote

NextTree ==
  \/ CallRejected("ftp_tree")
  \/ \E start \in {<<>>, <<"sub">>}, maxDepth \in (-1)..MaxDepthArg : CallTree(start, maxDepth)
  \/ TreeEntry
  \/ TreeReturn

SpecTree == InitTree /\ [][NextTree]_vars

\* tree walks of stores with '.' and '..' entries and with a directory that
\* is reachable from itself
InitWalk ==
  /\ InitCommon
  /\ \E profile \in {"", "staging"} : InitSession(profile)
  /\ listStyle = "mlsd"
  /\ cwd = <<>>
  /\ pureCall = NoPureCall
  /\ local = LocalTree({}, 1, 1)
  /\ \E levels \in {0, 1, TreeLevels}, dots \in BOOLEAN, looped \in BOOLEAN :
       remote = CyclicStore(RemoteStore(Absent, levels, TRUE), dots, looped)
  /\ remote0 = remote

NextWalk ==
  \/ \E maxDepth \in 0..MaxDepthArg : CallTree(<<>>, maxDepth)
  \/ TreeEntry
  \/ TreeReturn

\* a walk that has started goes on: the handler awaits each listing and
\* runs its loops to their end
SpecWalk == InitWalk /\ [][NextWalk]_vars /\ WF_vars(TreeEntry) /\ WF_vars(TreeReturn)

\* the single-operation tools: sessions over FTP and over SFTP that start in
\* the root of the remote store or in its directory sub
InitTools ==
  /\ InitCommon
  /\ \E profile \in {"", "staging"} : InitSession(profile)
  /\ listStyle = "mlsd"
  /\ cwd \in {<<>>, <<"sub">>}
  /\ pureCall = NoPureCall
  /\ local = LocalTree({}, 1, 1)
  /\ \E eb \in {Absent, File(1)}, levels \in 1..2, withFiles \in BOOLEAN :
       remote = RemoteStore(eb, levels, withFiles)
  /\ remote0 = remote

NextTools ==
  \/ \E tool \in {"ftp_stat", "ftp_exists", "ftp_copy", "ftp_chmod", "ftp_disk_space"} :
       CallRejected(tool)
  \/ \E path \in PathArgs : CallStat(path)
  \/ \E path \in PathArgs : CallExists(path)
  \/ \E sourcePath \in {<<"a.txt">>, <<"r.txt">>} : CallCopy(sourcePath, <<"b.txt">>)
  \/ \E path \in PathArgs : CallChmod(path)
  \/ CallDiskSpace

SpecTools == InitTools /\ [][NextTools]_vars

\* batch transfers over FTP and over SFTP: one request in each behaviour,
\* as the first invocation of the session or after rejected ones
InitBatch ==
  /\ InitCommon
  /\ \E profile \in {"", "staging"} : InitSession(profile)
  /\ listStyle = "mlsd"
  /\ cwd = <<>>
  /\ pureCall = NoPureCall
  /\ local = LocalTree({"a.txt", "b.txt", "node_modules"}, 1, 1)
  /\ \E eb \in {Absent, File(1)} : remote = RemoteStore(eb, 0, FALSE)
  /\ remote0 = remote

NextBatch ==
  \/ \E tool \in {"ftp_batch_upload", "ftp_batch_download"} : CallRejected(tool)
  \/ /\ call = NoCall
     /\ \E tool \in {"ftp_batch_upload", "ftp_batch_download"}, files \in BatchRequests :
          CallBatch(tool, files)
  \/ BatchStep
  \/ BatchReturn

SpecBatch == InitBatch /\ [][NextBatch]_vars

\* the two functions on their inputs
InitPure ==
  /\ InitCommon
  /\ InitSession("")
  /\ listStyle = "mlsd"
  /\ cwd = <<>>
  /\ pureCall \in PureInputs
  /\ local = LocalTree({}, 1, 1)
  /\ remote = RemoteStore(Absent, 0, FALSE)
  /\ remote0 = remote

NextPure ==
  \/ ApplyShouldIgnore
  \/ ApplyGetPort

SpecPure == InitPure /\ [][NextPure]_vars

\* every tool, on one local tree and two remote stores
Init ==
  /\ InitCommon
  /\ InitSession("")
  /\ listStyle = "mlsd"
  /\ cwd = <<>>
  /\ pureCall = NoPureCall
  /\ local = LocalTree({"a.txt", "b.txt", "node_modules"}, 1, 1)
  /\ \E levels \in {0, 2} : remote = RemoteStore(File(1), levels, TRUE)
  /\ remote0 = remote

Next ==
  \/ \E profile \in {"", "staging", "broken", "missing"} : CallConnect(profile, FALSE)
  \/ CallConnect("", TRUE)
  \/ \E tool \in {"ftp_sync", "ftp_tree", "ftp_copy"} : CallRejected(tool)
  \/ \E direction \in {"upload", "download", "both"} : CallSync(direction)
  \/ \E deployment \in DeploymentNames \cup {"nope"} : CallDeploy(deployment)
  \/ SyncIgnored
  \/ SyncDirectory
  \/ SyncFile
  \/ SyncReturn
  \/ \E maxDepth \in {0, MaxDepthArg} : CallTree(<<>>, maxDepth)
  \/ TreeEntry
  \/ TreeReturn
  \/ \E sourcePath \in {<<"a.txt">>, <<"r.txt">>} : CallCopy(sourcePath, <<"b.txt">>)

Spec == Init /\ [][Next]_vars

(***************************************************************************)
(* Properties.                                                             *)
(***************************************************************************)
\* whether the rule set of the running or last sync matches local path p
Ignored(p) ==
  p \in IgnoredPaths[local[<<".ftpignore">>].kind = "file",
                     local[<<".gitignore">>].kind = "file",
                     call.extraExclude, Len(p)]

\* the local files that neither match the rule set nor lie in a directory
\* that does
NonIgnoredFiles ==
  {p \in LocalPaths : /\ local[p].kind = "file"
                      /\ \A n \in 1..Len(p) : ~Ignored(SubSeq(p, 1, n))}

LocalHas(p) == p \in DOMAIN local /\ local[p].kind # "none"

\* an upload sync by ftp_sync has returned its report
UploadSyncDone ==
  /\ pc = "idle"
  /\ response.tool = "ftp_sync"
  /\ response.direction = "upload"
  /\ response.outcome = "ok"

\* uploaded + skipped + ignored of a report
Counted(stats) == stats.uploaded + stats.skipped + stats.ignored

\* uploaded + skipped + ignored over the frames of the running sync
RECURSIVE CountedInFrames(_)
CountedInFrames(st) ==
  IF st = <<>> THEN 0 ELSE Counted(Head(st).stats) + CountedInFrames(Tail(st))

\* C1: after an upload sync that returned an empty error list, a second
\* upload sync of the same unchanged tree to the same remote path, in which
\* no operation fails, reports uploaded = 0 and skipped = the number of
\* non-ignored local files.
C1_SecondSyncSkipsAll ==
  (UploadSyncDone /\ ~faulted /\ prev.call = call /\ prev.clean)
  => /\ response.stats.uploaded = 0
     /\ response.stats.skipped = Cardinality(NonIgnoredFiles)

\* C2: when the transfer of a file fails, the loop goes on with the next
\* entry, the errors list gains exactly one entry, which names the file, and
\* no count changes; the sync that returns has visited every entry of its
\* root, and every non-ignored file it visited is counted in uploaded or
\* skipped or named by an error.
C2_FailureIsolated ==
  /\ [][ (InSync /\ fault' = "put")
         => /\ pc' = "sync"
            /\ Len(stack') = Len(stack)
            /\ Top'.idx = Top.idx + 1
            /\ Len(Top'.stats.errors) = Len(Top.stats.errors) + 1
            /\ Top'.stats.errors[Len(Top'.stats.errors)].path = CurPath
            /\ SubSeq(Top'.stats.errors, 1, Len(Top.stats.errors)) = Top.stats.errors
            /\ Top'.stats.uploaded = Top.stats.uploaded
            /\ Top'.stats.skipped = Top.stats.skipped
            /\ Top'.stats.ignored = Top.stats.ignored ]_vars
  /\ [](UploadSyncDone
         => /\ \A i \in 1..Len(LocalTop) :
                 LocalHas(<<LocalTop[i]>>) => <<LocalTop[i]>> \in visited
            /\ LET failed == {i \in 1..Len(response.stats.errors) :
                                local[response.stats.errors[i].path].kind = "file"}
               IN  response.stats.uploaded + response.stats.skipped + Cardinality(failed)
                     = Cardinality(NonIgnoredFiles \cap visited))

\* C2's case: of three files the second fails to transfer, the other two are
\* counted
C2_Witness ==
  /\ UploadSyncDone
  /\ \A name \in {"a.txt", "b.txt", "c.txt"} : <<name>> \in visited
  /\ Len(response.stats.errors) = 1
  /\ response.stats.errors[1] = [path |-> <<"b.txt">>, message |-> "put"]
  /\ response.stats.uploaded + response.stats.skipped = 2

\* C3: a non-ignored local file whose lookup and transfer do not fail is
\* uploaded exactly when it has no remote counterpart or its modification
\* time is strictly later than the counterpart's, and is otherwise skipped,
\* with no transfer issued.
C3_NewerWins ==
  [][ (InSync /\ ~CurIgnored /\ local[CurPath].kind = "file" /\ fault' = "none")
      => LET entry == remote[CurPath]
             put   == [op |-> "put", path |-> CurPath]
         IN  IF entry.kind = "none" \/ local[CurPath].mtime > entry.mtime
               THEN Top'.stats = StatsUploaded(Top.stats) /\ put \in ops'
               ELSE Top'.stats = StatsSkipped(Top.stats) /\ put \notin ops' ]_vars

\* C4: a sync with direction download in which no operation fails leaves
\* every file of the remote directory present locally.
C4_DownloadFetches ==
  (/\ pc = "idle"
   /\ response.tool = "ftp_sync"
   /\ response.direction = "download"
   /\ response.outcome = "ok"
   /\ ~faulted)
  => \A p \in RemotePaths : (Len(p) = 1 /\ remote[p].kind = "file") => LocalHas(p)

\* C5: after a sync with direction both that returned without errors, every
\* non-ignored local file exists remotely and every remote file exists
\* locally.
C5_BothMirrors ==
  (/\ pc = "idle"
   /\ response.tool = "ftp_sync"
   /\ response.direction = "both"
   /\ response.outcome = "ok"
   /\ response.stats.errors = <<>>
   /\ ~faulted)
  => /\ \A p \in NonIgnoredFiles : remote[p].kind = "file"
     /\ \A p \in RemotePaths :
          (remote[p].kind = "file" /\ (Len(p) = 1 \/ LocalHas(Parent(p)))) => LocalHas(p)

\* C6: an invocation opens at most one connection, and no connection is
\* open when an invocation has returned.
C6_ConnectionClosed ==
  /\ opened <= 1
  /\ pc = "idle" => openConns = 0

\* the entries below directory start of the remote store
Below(start) ==
  {p \in RemotePaths : /\ Len(p) > Len(start)
                       /\ IsPrefix(start, p)
                       /\ \A n \in (Len(start) + 1)..Len(p) : remote[SubSeq(p, 1, n)].kind # "none"}

\* the level of p below start: 0 for the immediate children
Level(start, p) == Len(p) - Len(start) - 1

\* C7: for maxDepth d >= 0 the walk returns exactly the entries at levels
\* 0..d below start, each once, and lists no directory at level d or deeper.
C7_DepthBound ==
  (/\ pc = "idle"
   /\ response.tool = "ftp_tree"
   /\ response.outcome = "ok"
   /\ call.maxDepth >= 0)
  => LET want == {p \in Below(call.start) : Level(call.start, p) <= call.maxDepth}
     IN  /\ {response.tree[i].path : i \in 1..Len(response.tree)} = want
         /\ Len(response.tree) = Cardinality(want)
         /\ \A o \in ops :
              o.op = "list" => (o.path = call.start
                                \/ Level(call.start, o.path) < call.maxDepth)

\* C7's case: a walk with maxDepth 1 of a store that goes deeper
C7_Witness ==
  /\ pc = "idle"
  /\ response.tool = "ftp_tree"
  /\ response.outcome = "ok"
  /\ call.maxDepth = 1
  /\ \E p \in Below(call.start) : Level(call.start, p) > 1
  /\ \E i \in 1..Len(response.tree) : Level(call.start, response.tree[i].path) = 1

\* C8: an entry that matches the rule set adds one to ignored and changes
\* no other count, issues no remote operation, changes nothing remotely and
\* starts no recursive call; nothing inside an ignored directory is visited.
C8_IgnoredEntries ==
  /\ [][ (InSync /\ CurIgnored)
         => /\ Top'.stats.ignored = Top.stats.ignored + 1
            /\ Top'.stats.uploaded = Top.stats.uploaded
            /\ Top'.stats.skipped = Top.stats.skipped
            /\ Top'.stats.errors = Top.stats.errors
            /\ Len(stack') = Len(stack)
            /\ Top'.idx = Top.idx + 1
            /\ ops' = ops
            /\ remote' = remote ]_vars
  /\ [](\A p \in visited : \A n \in 1..(Len(p) - 1) : ~Ignored(SubSeq(p, 1, n)))

\* C8's case: a file that two patterns match and a directory that one
\* matches were each counted once, and the directory's file was not visited
C8_Witness ==
  /\ UploadSyncDone
  /\ {<<".env.log">>, <<".npm">>, <<"a.txt">>} \subseteq visited
  /\ local[<<".npm", "e.txt">>].kind = "file"
  /\ <<".npm", "e.txt">> \notin visited
  /\ response.stats.ignored = 2
  /\ ops = {[op |-> "list", path |-> <<>>], [op |-> "put", path |-> <<"a.txt">>]}

\* C9: with a.txt absent remotely, b.txt present remotely with a
\* modification time newer than or equal to the local one, and node_modules
\* holding pkg.js, an upload sync in which no operation fails reports
\* uploaded = 1, skipped = 1, ignored = 1 and no errors.
C9_Scenario ==
  (/\ UploadSyncDone
   /\ ~faulted
   /\ \A i \in 1..Len(LocalTop) :
        LocalHas(<<LocalTop[i]>>) <=> LocalTop[i] \in {"a.txt", "b.txt", "node_modules"}
   /\ local[<<"node_modules", "pkg.js">>].kind = "file"
   /\ remote0[<<"a.txt">>].kind = "none"
   /\ remote0[<<"b.txt">>].kind = "file"
   /\ remote0[<<"b.txt">>].mtime >= local[<<"b.txt">>].mtime)
  => response.stats = [uploaded |-> 1, downloaded |-> 0, skipped |-> 1,
                       errors |-> <<>>, ignored |-> 1]

\* C10 as stated: uploaded + skipped + ignored never exceeds the number of
\* local files visited so far, in the running sync and in its report.
C10_AtMostFilesVisited ==
  LET files == Cardinality({p \in visited : local[p].kind = "file"})
  IN  /\ pc = "sync" => CountedInFrames(stack) <= files
      /\ UploadSyncDone => Counted(response.stats) <= files

\* C10: uploaded + skipped + ignored never exceeds the number of local
\* entries, files and directories, visited so far, in the running sync and
\* in its report.
C10_AtMostEntriesVisited ==
  /\ pc = "sync" => CountedInFrames(stack) <= Cardinality(visited)
  /\ UploadSyncDone => Counted(response.stats) <= Cardinality(visited)

\* C10's case: an ignored directory is counted, so that the counts exceed
\* the files visited
C10_Witness ==
  /\ UploadSyncDone
  /\ <<".npm">> \in visited
  /\ Ignored(<<".npm">>)
  /\ Counted(response.stats) > Cardinality({p \in visited : local[p].kind = "file"})

\* C14: when the listing of a subdirectory fails during the walk, the walk
\* goes on with the next sibling and keeps the entries it has collected.
C14_TreeErrorIsolated ==
  [][ (pc = "tree" /\ fault' = "list")
      => /\ pc' = "tree"
         /\ Len(stack') = Len(stack)
         /\ Top'.idx = Top.idx + 1
         /\ SubSeq(results', 1, Len(results)) = results ]_vars

\* C15: a sync during which the remote session has failed returns that
\* failure, marked as an error, and not a report.
C15_ConnectionFailureFatal ==
  (pc = "idle" /\ lost /\ response.tool \in {"ftp_sync", "ftp_deploy"})
  => response.isError /\ response.outcome = "error"

\* C20: whichever operation fails at a non-ignored entry, local access,
\* the lookup of the remote counterpart or the transfer, the errors list
\* gains one entry naming the entry's path.
C20_EveryErrorRecorded ==
  [][ (InSync /\ ~CurIgnored /\ fault' \in {"lstat", "lookup", "put", "mkdir", "readdir"})
      => /\ Len(Top'.stats.errors) = Len(Top.stats.errors) + 1
         /\ Top'.stats.errors[Len(Top'.stats.errors)].path = CurPath ]_vars

\* C16: ftp_deploy of a deployment that the deployments table lacks, or
\* whose profile the configuration lacks, returns a not-found error, having
\* opened no connection, issued no remote operation, visited no local entry
\* and changed nothing remotely.
C16_DeployLookupFailure ==
  (/\ pc = "idle"
   /\ response.tool = "ftp_deploy"
   /\ \/ call.deployment \notin DeploymentNames
      \/ ConfigFile.deployments[call.deployment].profile \notin ProfileNames)
  => /\ response.isError
     /\ response.outcome = "notfound"
     /\ opened = 0
     /\ ops = {}
     /\ visited = {}
     /\ remote = remote0

\* C16's case: the deployment exists and names a profile that does not
C16_Witness ==
  /\ pc = "idle"
  /\ response.tool = "ftp_deploy"
  /\ call.deployment = "orphan"
  /\ ConfigFile.deployments["orphan"].profile \notin ProfileNames
  /\ response.outcome = "notfound"
  /\ opened = 0

\* whether the invocation that returned last had its connection
Connected == opened = 1 /\ fault \notin {"connect", "login"}

\* C11: ftp_copy over plain FTP answers that the copy is unsupported, issues
\* no remote operation and leaves the remote store as the call found it.
C11_UnsupportedCopyNoEffect ==
  (pc = "idle" /\ response.tool = "ftp_copy" /\ ~call.useSFTP /\ Connected)
  => /\ response.outcome = "unsupported"
     /\ ops = {}
     /\ remote = remote0

\* C11's case: a copy over FTP whose source exists has been refused
C11_Witness ==
  /\ pc = "idle"
  /\ response.tool = "ftp_copy"
  /\ ~call.useSFTP
  /\ Connected
  /\ response.outcome = "unsupported"
  /\ remote[<<"r.txt">>].kind = "file"

\* C12: an unsupported outcome of ftp_copy, ftp_chmod or ftp_disk_space is
\* marked as an error, as the other failures of an invocation are.
C12_UnsupportedMarkedAsFailure ==
  (pc = "idle" /\ response.outcome = "unsupported") => response.isError

\* the lookup of the ftp_exists or ftp_stat call that returned last
LastLookup == Lookup(call.useSFTP, call.path)

\* C13: with its connection established, ftp_exists answers true or false
\* and never an error; a lookup that failed yields false, and true is
\* answered only when the lookup found the entry.
C13_ExistsNeverFails ==
  (pc = "idle" /\ response.tool = "ftp_exists" /\ Connected)
  => /\ ~response.isError
     /\ response.outcome \in {"true", "false"}
     /\ fault # "none" => response.outcome = "false"
     /\ response.outcome = "true" => LastLookup.found

\* C13's case: the lookup of an entry the store holds failed, and the
\* answer is false
C13_Witness ==
  /\ pc = "idle"
  /\ response.tool = "ftp_exists"
  /\ Connected
  /\ fault \in {"stat", "list"}
  /\ LastLookup.found
  /\ response.outcome = "false"
  /\ ~response.isError

\* the directory that holds the entry a path argument names
ParentOf(path) == Parent(Resolve(path))

\* C18: over plain FTP, when the listing does not fail, ftp_stat(path)
\* succeeds exactly when the parent directory of path holds an entry with
\* the base name of path, and fails as not found otherwise.
C18_ListDerivedStat ==
  (/\ pc = "idle"
   /\ response.tool = "ftp_stat"
   /\ ~call.useSFTP
   /\ Connected
   /\ fault = "none")
  => /\ response.outcome \in {"ok", "notfound"}
     /\ response.outcome = "ok"
          <=> /\ RemoteAt(ParentOf(call.path)).kind = "dir"
              /\ RemoteAt(Resolve(call.path)).kind # "none"

\* whether pattern matches local path rel or its bare file name
Matches(rel, pattern) ==
  \/ Minimatch(PathChars(rel), pattern, TRUE)
  \/ Minimatch(<<Chars[rel[Len(rel)]]>>, pattern, FALSE)

Reverse(s) == [i \in 1..Len(s) |-> s[Len(s) + 1 - i]]

\* C17: shouldIgnore answers true exactly when some pattern of the list
\* matches the relative path or the file name; the answer is the same for
\* the list in reverse order, and a list with patterns appended (a pattern
\* of the pool, or a deployment's extra excludes) never turns true to false.
C17_IgnoreIsUnion ==
  pureCall.fn = "shouldIgnore"
  => LET rel == pureCall.rel
         ps  == pureCall.ignorePatterns
     IN  /\ pureCall.ignored <=> \E i \in 1..Len(ps) : Matches(rel, ps[i])
         /\ shouldIgnore(rel, Reverse(ps)) <=> pureCall.ignored
         /\ \A q \in PatternPool :
              /\ pureCall.ignored => shouldIgnore(rel, Append(ps, q))
              /\ pureCall.ignored => shouldIgnore(rel, <<q>> \o ps)
              /\ pureCall.ignored => shouldIgnore(rel, WithExtraExclude(ps, <<q, q>>))

\* C17's case: of two patterns only the second matches, and the path is
\* ignored
C17_Witness ==
  /\ pureCall.fn = "shouldIgnore"
  /\ Len(pureCall.ignorePatterns) = 2
  /\ ~Matches(pureCall.rel, pureCall.ignorePatterns[1])
  /\ Matches(pureCall.rel, pureCall.ignorePatterns[2])
  /\ pureCall.ignored

\* C19: a configured port is the port used; without one the port is 22
\* exactly when isSFTP selects the SFTP client and 21 exactly when it
\* selects the FTP client; sftp://host1 selects SFTP and ftp.example.com FTP.
C19_ProtocolAndPortAgree ==
  pureCall.fn = "getPort"
  => /\ pureCall.configured => pureCall.result = Num(pureCall.port)
     /\ ~pureCall.configured
          => /\ pureCall.result = Num(22) <=> pureCall.useSFTP
             /\ pureCall.result = Num(21) <=> ~pureCall.useSFTP
     /\ pureCall.host = ConfigFile.profiles["staging"].host => pureCall.useSFTP
     /\ pureCall.host = ConfigFile.profiles["default"].host => ~pureCall.useSFTP

\* C19's case: a host that has sftp inside and not in front, without a
\* configured port
C19_Witness ==
  /\ pureCall.fn = "getPort"
  /\ ~pureCall.configured
  /\ Includes(pureCall.host, <<"s", "f", "t", "p">>)
  /\ ~StartsWith(pureCall.host, <<"s", "f", "t", "p">>)
  /\ pureCall.useSFTP
  /\ pureCall.result = Num(22)

\* the recursion depth at which the walk listed path p
ListedAtDepth(p) == Len(p) - Len(call.start)

\* C21: a walk with a finite maxDepth ends, also in a store with a directory
\* that is reachable from itself; it lists no path at a recursion depth
\* beyond maxDepth and lists no entry named '.' or '..', which it emits.
C21_WalkTerminates ==
  /\ (pc = "tree") ~> (pc = "idle")
  /\ [](call.tool = "ftp_tree"
        => /\ \A i \in 1..Len(stack) : stack[i].depth <= call.maxDepth
           /\ \A o \in ops :
                o.op = "list"
                => /\ ListedAtDepth(o.path) <= call.maxDepth
                   /\ o.path # call.start => o.path[Len(o.path)] \notin {".", ".."})

\* C21's case: a walk of a store whose root holds itself as loop has ended,
\* having gone through loop twice and emitted a '.' entry
C21_Witness ==
  /\ pc = "idle"
  /\ response.tool = "ftp_tree"
  /\ response.outcome = "ok"
  /\ remote[<<"loop">>].kind = "dir"
  /\ [op |-> "list", path |-> <<"loop", "loop">>] \in ops
  /\ \E i \in 1..Len(response.tree) :
       response.tree[i].name = "." /\ response.tree[i].isDirectory

\* uploaded + skipped + ignored + the number of errors of a report
Total(stats) == Counted(stats) + Len(stats.errors)

RECURSIVE TotalInFrames(_)
TotalInFrames(st) ==
  IF st = <<>> THEN 0 ELSE Total(Head(st).stats) + TotalInFrames(Tail(st))

\* the errors of the frames of the running sync
RECURSIVE ErrorsInFrames(_)
ErrorsInFrames(st) ==
  IF st = <<>> THEN <<>> ELSE Head(st).stats.errors \o ErrorsInFrames(Tail(st))

\* the visited directories whose sub-sync was started: those that neither
\* match the rule set nor have an error of their own in errors
EnteredDirs(errors) ==
  {p \in visited : /\ local[p].kind = "dir"
                   /\ ~Ignored(p)
                   /\ \A i \in 1..Len(errors) : errors[i].path # p}

\* s with exactly one of the four counts one higher gives t
OneMore(s, t) ==
  /\ Total(t) = Total(s) + 1
  /\ t.uploaded \in {s.uploaded, s.uploaded + 1}
  /\ t.skipped \in {s.skipped, s.skipped + 1}
  /\ t.ignored \in {s.ignored, s.ignored + 1}
  /\ Len(t.errors) \in {Len(s.errors), Len(s.errors) + 1}
  /\ t.downloaded = s.downloaded

\* C22: in an upload sync every visited file adds one to exactly one of
\* ignored, skipped, uploaded and errors; a visited directory adds one to
\* ignored, or one to errors, or starts a sub-sync whose report is added
\* count by count when it is done; at every moment the four counts sum to
\* the number of visited entries other than the directories entered.
C22_ExactlyOneAccounting ==
  /\ [][ InSync
         => IF Len(stack') = Len(stack) + 1
              THEN /\ local[CurPath].kind = "dir"
                   /\ stack'[Len(stack)].stats = Top.stats
                   /\ Top'.stats = NoStats
              ELSE /\ Len(stack') = Len(stack)
                   /\ OneMore(Top.stats, Top'.stats)
                   /\ local[CurPath].kind = "dir"
                        => Top'.stats.uploaded + Top'.stats.skipped
                             = Top.stats.uploaded + Top.stats.skipped ]_vars
  /\ [][ (pc = "sync" /\ ~InSync /\ Len(stack) > 1)
         => LET parent == stack[Len(stack) - 1].stats
            IN  /\ Len(stack') = Len(stack) - 1
                /\ Top'.stats.uploaded = parent.uploaded + Top.stats.uploaded
                /\ Top'.stats.skipped = parent.skipped + Top.stats.skipped
                /\ Top'.stats.ignored = parent.ignored + Top.stats.ignored
                /\ Top'.stats.errors = parent.errors \o Top.stats.errors ]_vars
  /\ [](pc = "sync"
         => TotalInFrames(stack)
              = Cardinality(visited) - Cardinality(EnteredDirs(ErrorsInFrames(stack))))
  /\ [](UploadSyncDone
         => Total(response.stats)
              = Cardinality(visited) - Cardinality(EnteredDirs(response.stats.errors)))

\* C22's case: a sync has returned that entered a directory and ignored the
\* file in it, uploaded one file and failed at another
C22_Witness ==
  /\ UploadSyncDone
  /\ <<"build", "x.tmp">> \in visited
  /\ response.stats.ignored = 1
  /\ Len(response.stats.errors) = 1
  /\ response.stats.uploaded = 1
  /\ Total(response.stats) = Cardinality(visited) - 1

\* the entry at hand is a non-ignored file with a remote counterpart
FoundCounterpart ==
  /\ InSync
  /\ ~CurIgnored
  /\ local[CurPath].kind = "file"
  /\ remote[CurPath].kind = "file"

\* the file at hand is uploaded: transferred and counted in uploaded
Uploads ==
  /\ Top'.stats = StatsUploaded(Top.stats)
  /\ [op |-> "put", path |-> CurPath] \in ops'
  /\ remote'[CurPath] = File(clock)

\* an upload sync over FTP, on a server whose listing carries no readable
\* time, in which nothing failed uploads every non-ignored file
UnreadableTimesUploadAll ==
  (UploadSyncDone /\ ~faulted /\ ~call.useSFTP /\ listStyle = "listbad")
  => /\ response.stats.skipped = 0
     /\ response.stats.uploaded = Cardinality(NonIgnoredFiles)

\* C23 as stated: a file whose remote counterpart has a time that is
\* missing, zero or unparsable is never skipped; it is uploaded, on every run.
C23_UnknownTimeUploads ==
  /\ [][ (/\ FoundCounterpart
          /\ fault' = "none"
          /\ \/ remote[CurPath].mtime = 0
             \/ ~call.useSFTP /\ listStyle = "listbad")
         => Uploads ]_vars
  /\ [] UnreadableTimesUploadAll

\* C23: a file whose remote counterpart has no readable time (over FTP
\* neither modifiedAt nor a rawModifiedAt that is a date) or, over SFTP, the
\* modifyTime 0, is never skipped; it is uploaded, on every run.  A time of
\* zero that an FTP server reports is compared like any other time.
C23_NoReadableTimeUploads ==
  /\ [][ (/\ FoundCounterpart
          /\ fault' = "none"
          /\ \/ call.useSFTP /\ remote[CurPath].mtime = 0
             \/ ~call.useSFTP /\ listStyle = "listbad")
         => Uploads ]_vars
  /\ [] UnreadableTimesUploadAll

\* C23's case: the second of two clean upload syncs of the same tree over
\* FTP without readable times has uploaded b.txt, which it found remotely
\* with a time later than the local one
C23_Witness ==
  /\ UploadSyncDone
  /\ ~faulted
  /\ prev.call = call
  /\ prev.clean
  /\ ~call.useSFTP
  /\ listStyle = "listbad"
  /\ remote0[<<"b.txt">>].kind = "file"
  /\ remote0[<<"b.txt">>].mtime > local[<<"b.txt">>].mtime
  /\ [op |-> "put", path |-> <<"b.txt">>] \in ops
  /\ response.stats.uploaded >= 1

\* C24: an upload sync and a deployment issue only list, stat,
\* create-directory and upload operations; what the remote store held when
\* they began it still holds, as a file or a directory as before, also what
\* is absent locally; and no step changes the local tree.
C24_UploadNonDestructive ==
  /\ [](/\ call.tool \in {"ftp_sync", "ftp_deploy"}
        /\ call.direction = "upload"
        => /\ \A o \in ops : o.op \in {"list", "stat", "mkdir", "put"}
           /\ \A p \in RemotePaths :
                remote0[p].kind # "none" => remote[p].kind = remote0[p].kind)
  /\ [][local' = local]_vars

\* C24's case: a deployment has uploaded a.txt, and r.txt, which exists only
\* remotely, is where it was
C24_Witness ==
  /\ pc = "idle"
  /\ response.tool = "ftp_deploy"
  /\ response.outcome = "ok"
  /\ [op |-> "put", path |-> <<"a.txt">>] \in ops
  /\ remote[<<"a.txt">>].kind = "file"
  /\ remote0[<<"a.txt">>].kind = "none"
  /\ ~LocalHas(<<"r.txt">>)
  /\ remote[<<"r.txt">>] = remote0[<<"r.txt">>]
  /\ remote[<<"r.txt">>].kind = "file"

\* an invocation of tool begins and ends or goes on in this step
Calls(tools) == pc = "idle" /\ call'.tool \in tools

\* an ftp_connect that names a missing profile leaves the session as it
\* is, and one whose configuration is incomplete installs it all the same
ConnectInstalls ==
  /\ [][ (Calls({"ftp_connect"}) /\ response'.isError)
         => UNCHANGED <<currentConfig, currentProfile>> ]_vars
  /\ [][ (Calls({"ftp_connect"}) /\ response'.outcome = "nocreds")
         => currentConfig'.set /\ ~HasCredentials(currentConfig') ]_vars

\* the active configuration is installed and incomplete
Incomplete == currentConfig.set /\ ~HasCredentials(currentConfig)

\* C25 as stated: an ftp_connect that names a missing profile leaves the
\* active configuration unchanged, one whose configuration is incomplete
\* installs it, and with it installed every invocation other than
\* ftp_connect answers that the credentials are not configured and leaves
\* the configuration as it is.
C25_IncompleteUntilConnect ==
  /\ ConnectInstalls
  /\ [][ (Incomplete /\ pc = "idle" /\ call'.tool # "ftp_connect")
         => /\ response'.outcome = "nocreds"
            /\ UNCHANGED <<currentConfig, currentProfile>> ]_vars

\* C25: an ftp_connect that names a missing profile leaves the active
\* configuration unchanged; one whose configuration lacks host, user or
\* password answers that the credentials are not configured and installs
\* it; with it installed every invocation other than ftp_connect and
\* ftp_deploy gives that answer and leaves the configuration as it is.
C25_IncompleteUntilConnectOrDeploy ==
  /\ ConnectInstalls
  /\ [][ (Incomplete /\ pc = "idle" /\ call'.tool \notin {"ftp_connect", "ftp_deploy"})
         => /\ response'.outcome = "nocreds"
            /\ UNCHANGED <<currentConfig, currentProfile>> ]_vars

\* C25's case: with the profile broken installed, a sync has answered that
\* the credentials are not configured
C25_Witness ==
  /\ pc = "idle"
  /\ response.tool = "ftp_sync"
  /\ response.outcome = "nocreds"
  /\ currentProfile = "broken"
  /\ currentConfig = ConfigFile.profiles["broken"]
  /\ opened = 0

\* the deployment of the last invocation resolves
Resolves(c) ==
  /\ c.tool = "ftp_deploy"
  /\ c.deployment \in DeploymentNames
  /\ ConfigFile.deployments[c.deployment].profile \in ProfileNames

DeployProfile(c) == ConfigFile.deployments[c.deployment].profile

\* C26: a deployment that resolves makes its profile the session's active
\* configuration and profile name, and they stay so while it runs and after
\* it has returned, whether it failed or not; an invocation after it, other
\* than ftp_connect and ftp_deploy, keeps them and connects by the
\* profile's host; a deployment that does not resolve changes neither.
C26_DeploySwitchesProfile ==
  /\ [](Resolves(call)
        => /\ currentProfile = DeployProfile(call)
           /\ currentConfig = ConfigFile.profiles[DeployProfile(call)])
  /\ [][ (Resolves(call) /\ pc = "idle" /\ call'.tool \notin {"ftp_connect", "ftp_deploy"})
         => /\ UNCHANGED <<currentConfig, currentProfile>>
            /\ call'.useSFTP = isSFTP(ConfigFile.profiles[DeployProfile(call)].host) ]_vars
  /\ [][ (currentConfig.set /\ pc = "idle" /\ call'.tool \notin {"ftp_connect", "ftp_deploy"})
         => UNCHANGED <<currentConfig, currentProfile>> ]_vars
  /\ [][ (Calls({"ftp_deploy"}) /\ ~Resolves(call'))
         => UNCHANGED <<currentConfig, currentProfile>> ]_vars

\* C26's case: the deployment site, of profile staging, could not connect,
\* and the copy that followed it went to the SFTP server of staging
C26_Witness ==
  /\ pc = "idle"
  /\ response.tool = "ftp_copy"
  /\ response.outcome = "ok"
  /\ call.useSFTP
  /\ prev.call.tool = "ftp_deploy"
  /\ prev.call.deployment = "site"
  /\ ~prev.clean
  /\ currentProfile = "staging"
  /\ currentConfig = ConfigFile.profiles["staging"]

\* a batch transfer has returned its report
BatchDone ==
  /\ pc = "idle"
  /\ response.tool \in {"ftp_batch_upload", "ftp_batch_download"}
  /\ response.outcome = "ok"

\* the count of successes a batch report states
Transferred(r) == IF r.tool = "ftp_batch_upload" THEN r.stats.uploaded ELSE r.stats.downloaded

\* C27: each step of a batch attempts the next file of the request and
\* goes on to the one after it, whether the transfer failed or not; the file
\* is pushed on exactly one of the two lists; the batch uses the one
\* connection; and the report's count of successes plus its count of
\* failures is the number of files requested.
C27_BatchAccounting ==
  /\ [][ InBatch
         => LET file == call.files[Top.idx]
            IN  /\ ops' = ops \cup {TransferOp(call.tool, file)}
                /\ pc' = "batch"
                /\ Top'.idx = Top.idx + 1
                /\ \/ /\ results' = Append(results, file.remotePath)
                      /\ Top'.failed = Top.failed
                   \/ /\ results' = results
                      /\ Len(Top'.failed) = Len(Top.failed) + 1
                      /\ SubSeq(Top'.failed, 1, Len(Top.failed)) = Top.failed
                      /\ Top'.failed[Len(Top'.failed)].path = file.remotePath ]_vars
  /\ [](pc = "batch"
        => /\ Top.entries = call.files
           /\ Len(results) + Len(Top.failed) = Top.idx - 1
           /\ opened = 1)
  /\ [](BatchDone
        => /\ ~response.isError
           /\ opened = 1
           /\ Transferred(response) = Len(results)
           /\ Transferred(response) + Len(response.stats.errors) = Len(call.files)
           /\ \A i \in 1..Len(call.files) :
                \/ \E j \in 1..Len(results) : results[j] = call.files[i].remotePath
                \/ \E j \in 1..Len(response.stats.errors) :
                     response.stats.errors[j].path = call.files[i].remotePath)

\* C27's case: of three files the second failed, and the third was
\* transferred after it
C27_Witness ==
  /\ BatchDone
  /\ Len(call.files) = 3
  /\ Len(response.stats.errors) = 1
  /\ response.stats.errors[1].path = call.files[2].remotePath
  /\ results = <<call.files[1].remotePath, call.files[3].remotePath>>
  /\ call.files[2] # call.files[3]
  /\ Transferred(response) = 2
====
